---------------------------- MODULE Spec2Model ----------------------------
(***************************************************************************)
(* Model of the miga directory scraper: the pagination crawl of the two    *)
(* site adapters (Yellow Pages, Yelp), the listing extractor's validity    *)
(* gate, the upsert of BaseScraper.save_business / commit on a SQLAlchemy  *)
(* session, and the per-category driver scrape_multiple_categories.        *)
(*                                                                         *)
(* Encoding of Python values:                                              *)
(*   - a str is a sequence of tokens ("" is << >>); None, where a str is   *)
(*     expected, is the sentinel sequence None;                            *)
(*   - an Optional[int] / Optional[dict] is a sequence of length <= 1      *)
(*     (Nothing is << >>).                                                 *)
(***************************************************************************)
EXTENDS Integers, Sequences, FiniteSets, TLC

VARIABLES
    call,           \* the public method the driver has called
    adapter,        \* "yellowpages" | "yelp": which scraper class
    zyte_client,    \* self.zyte_client: Nothing or <<"client">>
    max_pages,      \* the max_pages argument: Nothing or <<m>>
    page,           \* the loop's page counter
    start,          \* the Yelp loop's offset
    businesses,     \* the accumulated list of scrape_businesses_from_search
    business_urls,  \* the accumulated list of scrape_search_results
    pc,             \* position of the crawl: "idle" | "loop" | "returned"
    raised,         \* an exception reached the caller of the public method
    log,            \* history: the fetches and sleeps performed, in order
    served,         \* history: what each fetched page held
    autoflush,      \* the Session's autoflush setting
    committed,      \* rows of table businesses, as committed
    tx,             \* rows the session's transaction sees (flushed state)
    pending,        \* objects added to the session and not yet flushed
    last_call,      \* history: the last save_business / commit call
    db_faults,      \* history: the database errors met so far
    business_titles,\* scrape_multiple_categories: the titles argument
    idx,            \* scrape_multiple_categories: index of the current title
    results,        \* scrape_multiple_categories: the results dict, in order
    saved_args,     \* history: every record passed to save_business
    commit_failed,  \* history: a db.commit() of this call has failed
    batch_saved,    \* history: the records of the latest category whose
                    \* save_business returned a row
    listing_element,\* the fragment or detail page given to the extractor
    business_data,  \* what the extractor returned: Nothing or <<record>>
    search_url,     \* the URL build_search_url returned
    current_url,    \* the page URL the crawl loop built from it
    selector_matches, \* what each listing selector finds on the page
    found_listings, \* the listings the selector loop settled on
    parsed_text,    \* the text given to _parse_address
    address_parts   \* the dict _parse_address returned

crawl_vars == <<call, adapter, zyte_client, max_pages, page, start,
                businesses, business_urls, pc, raised, log, served>>
store_vars == <<autoflush, committed, tx, pending, last_call, db_faults>>
cat_vars   == <<business_titles, idx, results, saved_args, commit_failed,
                batch_saved>>
extract_vars == <<listing_element, business_data>>
url_vars   == <<search_url, current_url>>
local_vars == <<selector_matches, found_listings, parsed_text, address_parts>>
vars       == <<crawl_vars, store_vars, cat_vars, extract_vars, url_vars, local_vars>>

-----------------------------------------------------------------------------
(* Bounds of the model.                                                    *)

\* listing containers the site shows to one crawl, over all its pages
MaxSiteListings == 3
\* listing containers the site shows to one scrape_multiple_categories
\* call, over all its categories
MaxCategoryListings == 2
\* database errors (lost connection, failed COMMIT) one run of the model
\* meets, constraint violations not counted
MaxFaults == 1
\* objects one session holds added and unflushed before the model stops
\* adding to it
MaxPending == 2

-----------------------------------------------------------------------------
(* Python values.                                                          *)

None    == <<"<None>">>
Nothing == << >>

\* Python truthiness of an Optional[str]: None and "" are falsy
Truthy(s) == s # None /\ s # << >>

\* Python truthiness of an Optional[int]: None and 0 are falsy
TruthyInt(o) == o # Nothing /\ o[1] # 0

RECURSIVE Flatten(_)
Flatten(ss) == IF ss = << >> THEN << >> ELSE Head(ss) \o Flatten(Tail(ss))

BoundedSeq(S, n) == UNION {[1..k -> S] : k \in 0..n}

\* s.startswith(t) for a one-token prefix
StartsWith(s, t) == Len(s) >= 1 /\ s[1] = t

\* sub in s, for strings as token sequences
Contains(s, sub) ==
    \E i \in 1..(Len(s) - Len(sub) + 1) :
        SubSeq(s, i, i + Len(sub) - 1) = sub

\* s.split('?')[0]
BeforeQuery(s) ==
    IF \E i \in 1..Len(s) : s[i] = "?"
    THEN LET i == CHOOSE j \in 1..Len(s) :
                      s[j] = "?" /\ \A k \in 1..(j - 1) : s[k] # "?"
         IN  SubSeq(s, 1, i - 1)
    ELSE s


-----------------------------------------------------------------------------
(* The two adapters.                                                       *)

YP   == "yellowpages"
YELP == "yelp"
Adapters == {YP, YELP}

\* self.base_url
BaseUrl(ad) == IF ad = YP THEN <<"https://www.yellowpages.com">>
                          ELSE <<"https://www.yelp.ca">>

\* first tokens of an absolute href: href.startswith('http')
HttpTokens == {"https://www.yellowpages.com", "https://www.yelp.ca",
               "http://other.example"}

\* urllib.parse.urljoin(base, rel) for a base without a path
UrlJoin(base, rel) ==
    IF rel = << >> THEN base
    ELSE IF StartsWith(rel, "/") THEN base \o rel
    ELSE base \o <<"/">> \o rel

\* self.zyte_client = ZyteClient(key) if key else None
ZyteClientInit(key) == IF Truthy(key) THEN <<"client">> ELSE Nothing

\* the values the zyte_api_key setting can have
ApiKeys == {None, << >>, <<"key">>}

-----------------------------------------------------------------------------
(* A listing fragment, as the selectors see it:                            *)
(*   name   the text of the element the name selectors match, None when    *)
(*          none matches (Yelp: no h3, or no link in it);                  *)
(*   href   the href of that element or of its parent link, "" when none;  *)
(*   phone  the phone text extracted, None when no selector matches;       *)
(*   raises an exception is raised while the fragment is read.             *)

Listing(name, href, phone, raises) ==
    [name |-> name, href |-> href, phone |-> phone, raises |-> raises]

\* business_data['source_url'] of _parse_business_from_listing
ExtractSourceUrl(ad, raw) ==
    IF raw.name = None \/ raw.href = << >> THEN None
    ELSE IF StartsWith(raw.href, "/")
         THEN UrlJoin(BaseUrl(ad), BeforeQuery(raw.href))
    ELSE IF ad = YP /\ ~(raw.href[1] \in HttpTokens)
         THEN UrlJoin(BaseUrl(ad), BeforeQuery(raw.href))
    ELSE BeforeQuery(raw.href)

\* business_data['phone']: the Yelp listing parser extracts no phone
ExtractPhone(ad, raw) == IF ad = YP THEN raw.phone ELSE None

\* the record _parse_business_from_listing builds before its final test
BusinessData(ad, raw) ==
    [name       |-> raw.name,
     source_url |-> ExtractSourceUrl(ad, raw),
     phone      |-> ExtractPhone(ad, raw)]

\* mutant of ValidityGate: the test on source_url is lost
ValidityGateNameOnly(data) == Truthy(data.name)

\* return business_data if business_data['name'] and business_data['source_url']
ValidityGate(data) == Truthy(data.name) /\ Truthy(data.source_url)

\* _parse_business_from_listing: Nothing is its None
ParseBusinessFromListing(ad, raw) ==
    IF raw.raises THEN Nothing
    ELSE IF ValidityGate(BusinessData(ad, raw))
         THEN <<BusinessData(ad, raw)>>
         ELSE Nothing

\* the fragments _parse_business_from_listing can be given: the name text
\* missing, empty or present; the href missing, site-relative, absolute,
\* relative without a slash, or a bare query
RawListings ==
    {Listing(name, href, None, raises) :
        name \in {None, << >>, <<"Acme">>},
        href \in {<< >>, <<"/", "acme", ".html">>,
                  <<"http://other.example", "/", "acme">>,
                  <<"acme", ".html">>, <<"?", "lid=1">>},
        raises \in BOOLEAN}

-----------------------------------------------------------------------------
(* The fetch service and the markup parser.                                *)

\* what requests.post can give: a 200 answer with browserHtml, a 200 answer
\* without it, another status, or an exception (transport, timeout, bad JSON)
NetOutcomes == {"ok", "no_html", "status", "exception"}

\* ZyteClient.fetch_page: the response dict, or Nothing for None
FetchPage(net) ==
    IF net \in {"status", "exception"} THEN Nothing
    ELSE <<[browserHtml |-> (net = "ok")]>>

\* markup: "tree" parses; "unparsable" makes BeautifulSoup raise; "hostile"
\* parses to a tree on which a search raises (e.g. RecursionError)
HtmlKinds == {"tree", "unparsable", "hostile"}

\* ZyteClient.parse_html: the soup, or Nothing for None
ParseHtml(html) == IF html = "unparsable" THEN Nothing ELSE <<html>>


\* scrape_business(url) on a detail page whose name element holds the text
\* name and whose phone element the text phone (None: no selector matches);
\* raises: an exception is raised while
\* the page is read. Nothing is its None
ScrapeBusiness(client, url, net, html, name, phone, raises) ==
    IF client = Nothing THEN Nothing
    ELSE IF FetchPage(net) = Nothing \/ ~FetchPage(net)[1].browserHtml THEN Nothing
    ELSE IF ParseHtml(html) # <<"tree">> \/ raises THEN Nothing
    ELSE IF Truthy(name)
         THEN <<[name |-> name, source_url |-> url, phone |-> phone]>>
         ELSE Nothing

\* the url arguments of scrape_business tried
DetailUrls == {<< >>, <<"https://www.yellowpages.com", "/", "acme", ".html">>,
               <<"https://www.yellowpages.com", "/", "acme", ".html", "?", "lid=1">>}

-----------------------------------------------------------------------------
(* What the site serves.                                                   *)

\* the listing fragments of the crawled sites: two businesses (the second
\* linked with a tracking query), a fragment without a link, a fragment
\* whose name element holds no text, a fragment whose extraction raises,
\* and on Yelp a fragment linked with a relative href
CrawlListings(ad) ==
    IF ad = YP
    THEN {Listing(<<"Acme">>, <<"/", "acme", ".html">>, <<"555-1234">>, FALSE),
          Listing(<<"Bolt">>, <<"/", "bolt", ".html", "?", "lid=1">>, None, FALSE),
          Listing(<<"Acme">>, << >>, None, FALSE),
          Listing(<< >>, <<"/", "acme", ".html">>, None, FALSE),
          Listing(<<"Bolt">>, <<"/", "bolt", ".html">>, None, TRUE)}
    ELSE {Listing(<<"Acme">>, <<"/", "biz", "/", "acme">>, None, FALSE),
          Listing(<<"Bolt">>, <<"/", "biz", "/", "bolt", "?", "osq=x">>, None, FALSE),
          Listing(<<"Acme">>, << >>, None, FALSE),
          Listing(<< >>, <<"/", "biz", "/", "acme">>, None, FALSE),
          Listing(<<"Bolt">>, <<"/", "biz", "/", "bolt">>, None, TRUE),
          Listing(<<"Bolt">>, <<"adredir", "/", "biz", "/", "bolt">>, None, FALSE)}

\* a result page: the fetch outcome, the markup, the listing containers in
\* document order, and the pagination controls (Yelp: the main container,
\* the pagination block and the next link in it)
Page(net, html, listings, next, main, pagination) ==
    [net |-> net, html |-> html, listings |-> listings, next |-> next,
     main |-> main, pagination |-> pagination]

Pages(ad, room) ==
    {Page(net, "tree", << >>, FALSE, TRUE, TRUE) :
        net \in NetOutcomes \ {"ok"}}
    \cup {Page("ok", html, << >>, FALSE, TRUE, TRUE) :
        html \in HtmlKinds \ {"tree"}}
    \cup {Page("ok", "tree", ls, next, TRUE, TRUE) :
        ls \in BoundedSeq(CrawlListings(ad), room), next \in BOOLEAN}
    \cup (IF ad = YP THEN {}
          ELSE {Page("ok", "tree", << >>, FALSE, FALSE, FALSE)}
               \cup {Page("ok", "tree", ls, FALSE, TRUE, FALSE) :
                       ls \in BoundedSeq(CrawlListings(ad), room)})

-----------------------------------------------------------------------------
(* One pass of the crawl loop, step by step.                               *)

BUSINESSES == "scrape_businesses_from_search"
URLS       == "scrape_search_results"
CATEGORIES == "scrape_multiple_categories"

\* mutant of ClientMissing: the test of the client is lost
ClientMissingIgnored(client) == FALSE

\* if not self.zyte_client
ClientMissing(client) == client = Nothing

\* if not response or 'browserHtml' not in response
NoResponse(response) == response = Nothing \/ ~response[1].browserHtml

\* the listing elements the loop iterates over (Yelp: inside main)
FindListings(ad, p) == p.listings

\* the loop body for one listing of scrape_businesses_from_search; the Yelp
\* loop parses only a listing that has the name heading
ListingBusiness(ad, raw) ==
    IF ad = YELP /\ raw.name = None THEN Nothing
    ELSE ParseBusinessFromListing(ad, raw)

\* mutant of PageBusinesses: an exception in a listing ends the loop over
\* the listings
RECURSIVE PageBusinessesAbortOnRaise(_, _)
PageBusinessesAbortOnRaise(ad, listings) ==
    IF listings = << >> \/ Head(listings).raises THEN << >>
    ELSE ListingBusiness(ad, Head(listings))
            \o PageBusinessesAbortOnRaise(ad, Tail(listings))

\* page_businesses after the loop over the listings
PageBusinesses(ad, listings) ==
    Flatten([i \in 1..Len(listings) |-> ListingBusiness(ad, listings[i])])

\* businesses.append(business_data) for every record of the page
Accumulate(acc, page_businesses) == acc \o page_businesses

\* the href test and normalisation of scrape_search_results for one listing:
\* Nothing when the listing gives no URL
ListingUrl(ad, raw) ==
    IF raw.name = None THEN Nothing
    ELSE IF ad = YP
    THEN IF (raw.href # << >> /\ Contains(raw.href, <<"/", "biz", "/">>))
            \/ Contains(raw.href, <<".html">>)
         THEN IF StartsWith(raw.href, "/") \/ ~(raw.href[1] \in HttpTokens)
              THEN <<UrlJoin(BaseUrl(ad), BeforeQuery(raw.href))>>
              ELSE <<BeforeQuery(raw.href)>>
         ELSE Nothing
    ELSE IF raw.href # << >> /\ Contains(raw.href, <<"/", "biz", "/">>)
         THEN IF StartsWith(raw.href, "/")
              THEN <<UrlJoin(BaseUrl(ad), BeforeQuery(raw.href))>>
              ELSE <<BeforeQuery(raw.href)>>
         ELSE Nothing

InSeq(x, s) == \E i \in 1..Len(s) : s[i] = x

\* the loop over the listings of scrape_search_results, from listing i on:
\* urls is business_urls, new is page_business_urls, exc tells that a listing
\* raised (the loop is not in a try of its own)
RECURSIVE CollectUrls(_, _, _, _, _)
CollectUrls(ad, listings, i, urls, new) ==
    IF i > Len(listings) THEN [urls |-> urls, new |-> new, exc |-> FALSE]
    ELSE IF listings[i].raises THEN [urls |-> urls, new |-> new, exc |-> TRUE]
    ELSE LET u == ListingUrl(ad, listings[i])
         IN  IF u # Nothing /\ ~InSeq(u[1], urls)
             THEN CollectUrls(ad, listings, i + 1, Append(urls, u[1]), Append(new, u[1]))
             ELSE CollectUrls(ad, listings, i + 1, urls, new)

\* mutant of HasNextPage: the next control is not looked at
HasNextPageAlways(ad, p) == TRUE

\* has_next_page (Yellow Pages); pagination and next_link (Yelp)
HasNextPage(ad, p) == IF ad = YP THEN p.next ELSE p.pagination /\ p.next

\* mutant of ReachedMaxPages: the bound is compared one page late
ReachedMaxPagesLate(ad, mp, pg) ==
    TruthyInt(mp) /\ (IF ad = YP THEN pg > mp[1] + 1 ELSE pg > mp[1])

\* if max_pages and page > max_pages (Yellow Pages, page counted from 1);
\* if max_pages and page >= max_pages (Yelp, page counted from 0);
\* pg is the counter after its increment
ReachedMaxPages(ad, mp, pg) ==
    TruthyInt(mp) /\ (IF ad = YP THEN pg > mp[1] ELSE pg >= mp[1])

\* mutant of PageParam: the first page carries the parameter too
PageParamEveryPage(ad, pg, st) ==
    IF ad = YP THEN <<"page", pg>> ELSE <<"start", st>>

\* the pagination parameter of current_url: none on the first page
PageParam(ad, pg, st) ==
    IF ad = YP THEN (IF pg > 1 THEN <<"page", pg>> ELSE Nothing)
               ELSE (IF pg > 0 THEN <<"start", st>> ELSE Nothing)

\* the number of the page being fetched, counted from 1
PageNumber(ad, pg) == IF ad = YP THEN pg ELSE pg + 1

FetchEvent(ad, pg, st) ==
    [op |-> "fetch", page |-> PageNumber(ad, pg), param |-> PageParam(ad, pg, st)]
SleepEvent == [op |-> "sleep", page |-> 0, param |-> Nothing]


\* mutant of ExitOnNoResponse: the failed page is fetched again
ExitOnNoResponseRetry == "continue"

\* what the loop does when there is no response or the markup does not
\* parse: break
ExitOnNoResponse == "break"

\* mutant of CrawlExceptPropagates: the handler re-raises
CrawlExceptReraised == TRUE

\* except Exception as e: logger.error(...); return businesses
CrawlExceptPropagates == FALSE

\* the result of one pass: how it leaves the loop body and the new values of
\* the loop's variables; fetched and slept tell what the pass did
PassResult(exit, pg, st, acc, fetched, slept) ==
    [exit |-> exit, page |-> pg, start |-> st, acc |-> acc,
     fetched |-> fetched, slept |-> slept]

\* mutant of NextPageStep: the delay comes before the test of max_pages
NextPageStepSleepFirst(ad, mp, pg, st, acc, p) ==
    IF ~HasNextPage(ad, p) THEN PassResult("break", pg, st, acc, TRUE, FALSE)
    ELSE LET pg2 == pg + 1
             st2 == IF ad = YELP THEN st + 10 ELSE st
         IN  IF ReachedMaxPages(ad, mp, pg2)
             THEN PassResult("break", pg2, st2, acc, TRUE, TRUE)
             ELSE PassResult("continue", pg2, st2, acc, TRUE, TRUE)

\* the end of a pass that has found records and looks for a next page
NextPageStep(ad, mp, pg, st, acc, p) ==
    IF ~HasNextPage(ad, p) THEN PassResult("break", pg, st, acc, TRUE, FALSE)
    ELSE LET pg2 == pg + 1
             st2 == IF ad = YELP THEN st + 10 ELSE st
         IN  IF ReachedMaxPages(ad, mp, pg2)
             THEN PassResult("break", pg2, st2, acc, TRUE, FALSE)
             ELSE PassResult("continue", pg2, st2, acc, TRUE, TRUE)

\* mutant of BusinessesBody: the test of page_businesses is lost
BusinessesBodyKeepsGoing(ad, mp, pg, st, acc, p) ==
    LET listings == FindListings(ad, p)
        acc2 == Accumulate(acc, PageBusinesses(ad, listings))
    IN  IF ad = YELP /\ ~p.main THEN PassResult("break", pg, st, acc, TRUE, FALSE)
        ELSE IF ad = YP /\ listings = << >>
             THEN PassResult("break", pg, st, acc, TRUE, FALSE)
        ELSE IF ad = YELP /\ ~p.pagination
             THEN PassResult("break", pg, st, acc2, TRUE, FALSE)
        ELSE NextPageStep(ad, mp, pg, st, acc2, p)

\* the part of a pass of scrape_businesses_from_search after the markup is
\* parsed
BusinessesBody(ad, mp, pg, st, acc, p) ==
    LET listings == FindListings(ad, p)
        page_businesses == PageBusinesses(ad, listings)
        acc2 == Accumulate(acc, page_businesses)
    IN  IF ad = YELP /\ ~p.main THEN PassResult("break", pg, st, acc, TRUE, FALSE)
        ELSE IF ad = YP /\ listings = << >>
             THEN PassResult("break", pg, st, acc, TRUE, FALSE)
        ELSE IF page_businesses = << >> \/ (ad = YELP /\ ~p.pagination)
             THEN PassResult("break", pg, st, acc2, TRUE, FALSE)
        ELSE NextPageStep(ad, mp, pg, st, acc2, p)

\* mutant of UrlsBody: the test of page_business_urls is lost
UrlsBodyKeepsGoing(ad, mp, pg, st, acc, p) ==
    LET listings == FindListings(ad, p)
        c == CollectUrls(ad, listings, 1, acc, << >>)
    IN  IF ad = YELP /\ ~p.main THEN PassResult("break", pg, st, acc, TRUE, FALSE)
        ELSE IF ad = YP /\ listings = << >>
             THEN PassResult("break", pg, st, acc, TRUE, FALSE)
        ELSE IF c.exc THEN PassResult("except", pg, st, c.urls, TRUE, FALSE)
        ELSE IF ad = YELP /\ ~p.pagination
             THEN PassResult("break", pg, st, c.urls, TRUE, FALSE)
        ELSE NextPageStep(ad, mp, pg, st, c.urls, p)

\* the part of a pass of scrape_search_results after the markup is parsed
UrlsBody(ad, mp, pg, st, acc, p) ==
    LET listings == FindListings(ad, p)
        c == CollectUrls(ad, listings, 1, acc, << >>)
    IN  IF ad = YELP /\ ~p.main THEN PassResult("break", pg, st, acc, TRUE, FALSE)
        ELSE IF ad = YP /\ listings = << >>
             THEN PassResult("break", pg, st, acc, TRUE, FALSE)
        ELSE IF c.exc THEN PassResult("except", pg, st, c.urls, TRUE, FALSE)
        ELSE IF c.new = << >> \/ (ad = YELP /\ ~p.pagination)
             THEN PassResult("break", pg, st, c.urls, TRUE, FALSE)
        ELSE NextPageStep(ad, mp, pg, st, c.urls, p)

\* one pass of the while True loop of fn (BUSINESSES or URLS) on page p
LoopPass(fn, ad, client, mp, pg, st, acc, p) ==
    IF ClientMissing(client) THEN PassResult("break", pg, st, acc, FALSE, FALSE)
    ELSE IF NoResponse(FetchPage(p.net))
         THEN PassResult(ExitOnNoResponse, pg, st, acc, TRUE, FALSE)
    ELSE IF ParseHtml(p.html) = Nothing
         THEN PassResult(ExitOnNoResponse, pg, st, acc, TRUE, FALSE)
    ELSE IF ParseHtml(p.html) = <<"hostile">>
         THEN PassResult("except", pg, st, acc, TRUE, FALSE)
    ELSE IF fn = BUSINESSES THEN BusinessesBody(ad, mp, pg, st, acc, p)
    ELSE UrlsBody(ad, mp, pg, st, acc, p)

\* history: what a fetched page held, as far as the crawl can tell
RECURSIVE PageUrls(_, _)
PageUrls(ad, listings) ==
    IF listings = << >> \/ Head(listings).raises THEN << >>
    ELSE ListingUrl(ad, Head(listings)) \o PageUrls(ad, Tail(listings))

\* kind tells how far the pass got: "no_response" (fetch_page gave None),
\* "no_html" (no browserHtml), "unparsable" (parse_html gave None), "hostile"
\* (a search on the tree raised), "no_main" (Yelp: no main container), "ok"
PageKind(ad, p) ==
    IF FetchPage(p.net) = Nothing THEN "no_response"
    ELSE IF p.net = "no_html" THEN "no_html"
    ELSE IF p.html # "tree" THEN p.html
    ELSE IF ad = YELP /\ ~p.main THEN "no_main"
    ELSE "ok"

Discarded(ad, listings) ==
    Cardinality({i \in 1..Len(listings) :
                    /\ ~listings[i].raises
                    /\ ListingBusiness(ad, listings[i]) = Nothing})

\* within scrape_multiple_categories the history keeps the counts only
Served(fn, ad, p) ==
    IF fn = CATEGORIES
    THEN [kind |-> "", net |-> "", containers |-> Len(p.listings),
          records |-> << >>, urls |-> << >>, listing_raised |-> FALSE,
          discarded |-> Discarded(ad, p.listings), next |-> FALSE]
    ELSE
    [kind |-> PageKind(ad, p),
     net |-> p.net,
     containers |-> Len(p.listings),
     records |-> IF fn = BUSINESSES THEN PageBusinesses(ad, p.listings) ELSE << >>,
     urls |-> IF fn = URLS THEN PageUrls(ad, p.listings) ELSE << >>,
     listing_raised |-> (\E i \in 1..Len(p.listings) : p.listings[i].raises),
     discarded |-> IF fn = BUSINESSES THEN Discarded(ad, p.listings) ELSE 0,
     next |-> IF ad = YP THEN p.next ELSE p.pagination /\ p.next]

-----------------------------------------------------------------------------
(* The state after construction, and the crawl.                            *)

NoCall == [op |-> "none", arg |-> << >>, ok |-> TRUE]

\* a scraper constructed on a fresh session over an empty table
Constructed ==
    /\ call = "none"
    /\ adapter \in Adapters
    /\ zyte_client \in {ZyteClientInit(k) : k \in ApiKeys}
    /\ max_pages = Nothing
    /\ page = 0
    /\ start = 0
    /\ businesses = << >>
    /\ business_urls = << >>
    /\ pc = "idle"
    /\ raised = FALSE
    /\ log = << >>
    /\ served = << >>
    /\ committed = << >>
    /\ tx = << >>
    /\ pending = << >>
    /\ last_call = NoCall
    /\ db_faults = 0
    /\ business_titles = << >>
    /\ idx = 0
    /\ results = << >>
    /\ saved_args = << >>
    /\ commit_failed = FALSE
    /\ batch_saved = << >>
    /\ listing_element = Nothing
    /\ business_data = Nothing
    /\ search_url = None
    /\ current_url = None
    /\ selector_matches = << >>
    /\ found_listings = << >>
    /\ parsed_text = None
    /\ address_parts = Nothing

\* the crawl touches no session: it is checked with SQLAlchemy's default
Init == Constructed /\ autoflush = TRUE

\* the max_pages arguments tried: None, 0 and the bounds a site can reach
MaxPagesArgs == {Nothing} \cup {<<m>> : m \in 0..(MaxSiteListings - 1)}

\* history: the listing containers the site has shown so far
RECURSIVE Shown(_)
Shown(sv) == IF sv = << >> THEN 0 ELSE Head(sv).containers + Shown(Tail(sv))

\* businesses = []; page = 1 (Yellow Pages) / page = 0; start = 0 (Yelp)
EnterCrawl(mp) ==
    /\ max_pages' = mp
    /\ page' = IF adapter = YP THEN 1 ELSE 0
    /\ start' = 0
    /\ businesses' = << >>
    /\ business_urls' = << >>
    /\ pc' = "loop"

\* the driver calls scrape_businesses_from_search(search_url, max_pages)
CallScrapeBusinessesFromSearch ==
    /\ pc = "idle" /\ call = "none"
    /\ \E mp \in MaxPagesArgs : EnterCrawl(mp)
    /\ call' = BUSINESSES
    /\ UNCHANGED <<local_vars, extract_vars, url_vars, adapter, zyte_client, raised, log, served, store_vars, cat_vars>>

\* the driver calls scrape_search_results(search_url, max_pages)
CallScrapeSearchResults ==
    /\ pc = "idle" /\ call = "none"
    /\ \E mp \in MaxPagesArgs : EnterCrawl(mp)
    /\ call' = URLS
    /\ UNCHANGED <<local_vars, extract_vars, url_vars, adapter, zyte_client, raised, log, served, store_vars, cat_vars>>

\* the pages the site can serve next: in scrape_multiple_categories the
\* model follows a smaller site, whose fetches fail in one way only
SitePages(c, ad, sv) ==
    IF c = CATEGORIES
    THEN {p \in Pages(ad, MaxCategoryListings - Shown(sv)) :
            /\ p.net \in {"ok", "exception"} /\ p.html = "tree"
            /\ p.main /\ (ad = YP \/ p.pagination)}
    ELSE Pages(ad, MaxSiteListings - Shown(sv))

\* the crawl function that is running
Crawling == IF call = URLS THEN URLS ELSE BUSINESSES

\* one pass of the while True loop, on the page the site serves
CrawlPass ==
    /\ pc = "loop"
    /\ \E p \in SitePages(call, adapter, served) :
       \E r \in {LoopPass(Crawling, adapter, zyte_client, max_pages, page, start,
                          IF Crawling = URLS THEN business_urls ELSE businesses,
                          p)} :
         /\ page' = r.page
         /\ start' = r.start
         /\ businesses' = IF Crawling = URLS THEN businesses ELSE r.acc
         /\ business_urls' = IF Crawling = URLS THEN r.acc ELSE business_urls
         /\ pc' = IF r.exit = "continue" THEN "loop" ELSE "returned"
         /\ raised' = (raised \/ (r.exit = "except" /\ CrawlExceptPropagates))
         /\ log' = log
                   \o (IF r.fetched THEN <<FetchEvent(adapter, page, start)>>
                                    ELSE << >>)
                   \o (IF r.slept THEN <<SleepEvent>> ELSE << >>)
         /\ served' = IF r.fetched
                      THEN Append(served, Served(IF call = CATEGORIES THEN call
                                                 ELSE Crawling, adapter, p))
                      ELSE served
    /\ UNCHANGED <<local_vars, extract_vars, url_vars, call, adapter, zyte_client, max_pages, store_vars, cat_vars>>

Next ==
    \/ CallScrapeBusinessesFromSearch
    \/ CallScrapeSearchResults
    \/ CrawlPass

Spec == Init /\ [][Next]_vars


-----------------------------------------------------------------------------
(* Properties of one crawl (specification Spec).                           *)

IsFetch(e) == e.op = "fetch"
Fetches == SelectSeq(log, IsFetch)

\* the records of the pages served, in page order
RECURSIVE RecordsOf(_)
RecordsOf(sv) == IF sv = << >> THEN << >> ELSE Head(sv).records \o RecordsOf(Tail(sv))

\* the URLs of the pages served, in page order
RECURSIVE UrlsOf(_)
UrlsOf(sv) == IF sv = << >> THEN << >> ELSE Head(sv).urls \o UrlsOf(Tail(sv))

\* s without the later occurrences of its elements
RECURSIVE Dedup(_)
Dedup(s) ==
    IF s = << >> THEN << >>
    ELSE LET d == Dedup(SubSeq(s, 1, Len(s) - 1))
         IN  IF InSeq(s[Len(s)], d) THEN d ELSE Append(d, s[Len(s)])

NoSharedSourceUrl(rs) ==
    \A i, j \in 1..Len(rs) : rs[i].source_url = rs[j].source_url => i = j

\* a page with at least one valid listing
GoodPage(sv) == sv.kind = "ok" /\ sv.records # << >>

\* C1: in scrape_businesses_from_search, when no page repeats a source_url
\* within itself, no two records of the returned list share a source_url
\* (a listing shown on two pages is returned once).
C1_CrossPageDedup ==
    (call = BUSINESSES /\ pc = "returned"
        /\ \A k \in 1..Len(served) : NoSharedSourceUrl(served[k].records))
    => NoSharedSourceUrl(businesses)

\* the pages served so far all have a valid listing and a next control
AllGoodWithNext(sv) == \A k \in 1..Len(sv) : GoodPage(sv[k]) /\ sv[k].next

\* the pages served are a whole N-page site: every page has a valid listing,
\* all but the last show a next control, the last shows none
WholeSite(sv) ==
    /\ Len(sv) >= 1
    /\ AllGoodWithNext(SubSeq(sv, 1, Len(sv) - 1))
    /\ GoodPage(sv[Len(sv)]) /\ ~sv[Len(sv)].next

\* C2: with max_pages=None, scrape_businesses_from_search goes on to the next
\* page as long as the pages have a valid listing and a next control, and on
\* an N-page site it returns after exactly the fetches of pages 1..N, with
\* the valid records of these pages in page order.
C2_ExactlyNPages ==
    (call = BUSINESSES /\ max_pages = Nothing /\ ~ClientMissing(zyte_client))
    => /\ AllGoodWithNext(served) => pc = "loop"
       /\ WholeSite(served) =>
            /\ pc = "returned"
            /\ Len(Fetches) = Len(served)
            /\ \A k \in 1..Len(Fetches) : Fetches[k].page = k
            /\ businesses = RecordsOf(served)

C2_Witness ==
    /\ call = BUSINESSES /\ max_pages = Nothing /\ pc = "returned"
    /\ WholeSite(served) /\ Len(served) = 3
    /\ Len(businesses) >= 3

\* C3: with max_pages = m >= 1, scrape_businesses_from_search and
\* scrape_search_results fetch at most m pages, and every entry of the list
\* they build comes from one of the pages 1..m.
C3_MaxPagesBound ==
    (call \in {BUSINESSES, URLS} /\ TruthyInt(max_pages))
    => /\ Len(Fetches) <= max_pages[1]
       /\ Len(served) <= max_pages[1]
       /\ \A i \in 1..Len(businesses) :
             \E k \in 1..Len(served) :
                 k <= max_pages[1] /\ InSeq(businesses[i], served[k].records)
       /\ \A i \in 1..Len(business_urls) :
             \E k \in 1..Len(served) :
                 k <= max_pages[1] /\ InSeq(business_urls[i], served[k].urls)

\* the bound, and nothing else, has stopped the crawl after page 2
C3_Witness ==
    /\ call = URLS /\ adapter = YELP /\ max_pages = <<2>> /\ pc = "returned"
    /\ Len(Fetches) = 2
    /\ served[2].kind = "ok" /\ served[2].next
    /\ Len(business_urls) = 2

FailedKinds == {"no_response", "no_html", "unparsable"}

\* C4: when the fetch of page k gives no response (None, or no browserHtml)
\* or markup that does not parse, scrape_businesses_from_search has returned,
\* page k being its last fetch, with exactly the records of pages 1..k-1.
C4_FetchFailureStops ==
    (call = BUSINESSES /\ Len(served) >= 1
        /\ served[Len(served)].kind \in FailedKinds)
    => /\ pc = "returned"
       /\ ~raised
       /\ Len(Fetches) = Len(served)
       /\ Fetches[Len(Fetches)].page = Len(served)
       /\ businesses = RecordsOf(SubSeq(served, 1, Len(served) - 1))

C4_Witness ==
    /\ call = BUSINESSES /\ pc = "returned" /\ Len(served) = 2
    /\ served[2].kind = "no_html"
    /\ businesses # << >>

\* the pass on the last page served met an exception: in requests.post, in
\* BeautifulSoup, in a search on the tree, or in a listing
ExceptionMet ==
    /\ Len(served) >= 1
    /\ LET last == served[Len(served)]
       IN  \/ last.net = "exception"
           \/ last.kind \in {"unparsable", "hostile"}
           \/ last.kind = "ok" /\ last.listing_raised

\* C5: no exception of fetching, parsing, listing extraction or missing
\* configuration reaches the caller of scrape_businesses_from_search or
\* scrape_search_results; a call that has returned has returned the list
\* accumulated so far.
C5_NoExceptionPropagates ==
    (call \in {BUSINESSES, URLS})
    => /\ ~raised
       /\ pc = "returned" =>
            /\ businesses = RecordsOf(served)
            /\ business_urls = Dedup(UrlsOf(served))
       /\ (ExceptionMet /\ (call = URLS \/ served[Len(served)].kind # "ok"))
            => pc = "returned"

C5_Witness ==
    /\ call = URLS /\ pc = "returned" /\ ~raised
    /\ Len(served) = 2 /\ served[2].kind = "ok" /\ served[2].listing_raised
    /\ Len(business_urls) = 2

\* C10: without a fetch client (no API key), scrape_businesses_from_search
\* and scrape_search_results fetch nothing, raise nothing and return the
\* empty list.
C10_NoClientNoFetch ==
    (call \in {BUSINESSES, URLS} /\ zyte_client = Nothing)
    => /\ Fetches = << >>
       /\ ~raised
       /\ pc = "returned" => businesses = << >> /\ business_urls = << >>

C10_Witness ==
    call = URLS /\ zyte_client = Nothing /\ pc = "returned" /\ log = << >>

\* C11: when a fetched page holds no listing container, or its containers
\* give no valid record, scrape_businesses_from_search has returned, that
\* page being its last fetch with no sleep after it, with the records of
\* the earlier pages (whatever the next control and max_pages).
C11_EmptyPageStops ==
    (call = BUSINESSES /\ Len(served) >= 1
        /\ served[Len(served)].kind = "ok"
        /\ served[Len(served)].records = << >>)
    => /\ pc = "returned"
       /\ Len(Fetches) = Len(served)
       /\ IsFetch(log[Len(log)])
       /\ businesses = RecordsOf(SubSeq(served, 1, Len(served) - 1))

\* page 2 shows containers, none of them valid, and a next control
C11_Witness ==
    /\ call = BUSINESSES /\ max_pages = Nothing /\ pc = "returned"
    /\ Len(served) = 2 /\ served[2].kind = "ok"
    /\ served[2].containers >= 1 /\ served[2].records = << >> /\ served[2].next
    /\ businesses # << >>

\* C12: within one crawl the log is fetch, sleep, fetch, ..., fetch: one
\* sleep between two consecutive fetches, none before the first fetch and
\* none after the last (a sleep at the end of the log is followed by the
\* fetch of the next pass).
C12_OneSleepBetweenFetches ==
    (call \in {BUSINESSES, URLS})
    => /\ \A j \in 1..Len(log) :
             log[j].op = IF j % 2 = 1 THEN "fetch" ELSE "sleep"
       /\ (pc = "returned" /\ log # << >>) => IsFetch(log[Len(log)])
       /\ (pc = "loop" /\ log # << >>)
             => ~IsFetch(log[Len(log)]) /\ zyte_client # Nothing

C12_Witness ==
    /\ call = BUSINESSES /\ pc = "returned"
    /\ Len(Fetches) = 3 /\ Len(log) = 5

\* the listing, had it been invalid (no link) instead of raising
AsInvalid(raw) ==
    IF raw.raises THEN Listing(raw.name, << >>, None, FALSE) ELSE raw

AsInvalidPage(p) ==
    [p EXCEPT !.listings = [i \in 1..Len(p.listings) |-> AsInvalid(p.listings[i])]]

\* C16: a listing whose extraction raises gives no record and changes
\* nothing else: on every page the site can serve next, the pass of
\* scrape_businesses_from_search (records appended in order, continuation)
\* is the one of the page with each such listing replaced by an invalid one.
C16_ListingExceptionIsolated ==
    (call = BUSINESSES /\ pc = "loop")
    => \A p \in SitePages(call, adapter, served) :
          LoopPass(BUSINESSES, adapter, zyte_client, max_pages, page, start,
                   businesses, p)
          = LoopPass(BUSINESSES, adapter, zyte_client, max_pages, page, start,
                     businesses, AsInvalidPage(p))

\* the crawl goes on after a page with a raising listing and a valid one
C16_Witness ==
    /\ call = BUSINESSES /\ pc = "loop" /\ Len(served) = 1
    /\ served[1].listing_raised /\ served[1].containers >= 2
    /\ served[1].records # << >>


-----------------------------------------------------------------------------
(* The session and the table businesses (models.Business: source_url is    *)
(* unique and not null, name is not null).                                 *)

\* a query without the filter: the first row of the table, whatever its
\* source_url
FirstOfAny(rows, url) == IF rows = << >> THEN Nothing ELSE <<1>>

\* the index of the first row with this source_url: Query.first()
FirstWith(rows, url) ==
    IF \E i \in 1..Len(rows) : rows[i].source_url = url
    THEN <<CHOOSE i \in 1..Len(rows) :
              /\ rows[i].source_url = url
              /\ \A j \in 1..(i - 1) : rows[j].source_url # url>>
    ELSE Nothing

\* the constraints of the table on a row to insert next to rows
Insertable(rows, row) ==
    /\ row.name # None
    /\ row.source_url # None
    /\ FirstWith(rows, row.source_url) = Nothing

\* Session.flush(): INSERT the pending objects in the order they were added;
\* ok is FALSE when a constraint fails (IntegrityError)
RECURSIVE Flush(_, _)
Flush(rows, pend) ==
    IF pend = << >> THEN [ok |-> TRUE, rows |-> rows]
    ELSE IF Insertable(rows, Head(pend))
         THEN Flush(Append(rows, Head(pend)), Tail(pend))
         ELSE [ok |-> FALSE, rows |-> rows]

\* for key, value in business_data.items():
\*     if hasattr(existing, key) and value is not None: setattr(...)
MergeInto(existing, data) ==
    [f \in DOMAIN existing |->
        IF f \in DOMAIN data /\ data[f] # None THEN data[f] ELSE existing[f]]

StoreState(c, t, p, ret, exc) ==
    [committed |-> c, tx |-> t, pending |-> p, ret |-> ret, raised |-> exc]

\* Session.rollback(): the transaction's changes and the pending objects
\* are dropped
Rollback(c) == [tx |-> c, pending |-> << >>]

\* BaseScraper.save_business(business_data) on a session with setting af;
\* db_error: the query raises (e.g. the connection is lost).
\* ret is the returned row, Nothing for None
SaveBusiness(af, c, t, p, data, db_error) ==
    LET fl == IF af THEN Flush(t, p) ELSE [ok |-> TRUE, rows |-> t]
        pend == IF af THEN << >> ELSE p
        hit == FirstWith(fl.rows, data.source_url)
    IN  IF db_error \/ ~fl.ok
        THEN StoreState(c, Rollback(c).tx, Rollback(c).pending, Nothing, FALSE)
        ELSE IF hit # Nothing
        THEN StoreState(c,
                 [fl.rows EXCEPT ![hit[1]] = MergeInto(fl.rows[hit[1]], data)],
                 pend, <<MergeInto(fl.rows[hit[1]], data)>>, FALSE)
        ELSE StoreState(c, fl.rows, Append(pend, data), <<data>>, FALSE)

\* BaseScraper.commit: except Exception: ...; self.db.rollback(); raise
CommitReraises == TRUE

\* BaseScraper.commit() ; db_error: the COMMIT itself fails
Commit(c, t, p, db_error) ==
    LET fl == Flush(t, p)
    IN  IF db_error \/ ~fl.ok
        THEN StoreState(c, Rollback(c).tx, Rollback(c).pending, Nothing,
                        CommitReraises)
        ELSE StoreState(fl.rows, fl.rows, << >>, Nothing, FALSE)

\* the records the driver passes to save_business
SaveArgs ==
    {[name |-> <<"Acme">>,
      source_url |-> <<"https://www.yellowpages.com", "/", "acme", ".html">>,
      phone |-> ph] : ph \in {None, <<"555-1234">>, <<"555-9999">>}}
    \cup {[name |-> <<"Acme Inc">>,
      source_url |-> <<"https://www.yellowpages.com", "/", "acme", ".html">>,
      phone |-> None],
     [name |-> <<"Bolt">>,
      source_url |-> <<"https://www.yellowpages.com", "/", "bolt", ".html">>,
      phone |-> None]}

\* whether the database may fail at this call
FaultChoices(n) == IF n < MaxFaults THEN BOOLEAN ELSE {FALSE}

\* the sessions database.get_db can hand to the scraper: autoflush on
\* (SQLAlchemy's default) or off
InitStore == Constructed /\ autoflush \in BOOLEAN

\* the driver calls save_business(business_data)
CallSaveBusiness ==
    /\ call \in {"none", "store"}
    /\ Len(pending) < MaxPending
    /\ \E data \in SaveArgs, db_error \in FaultChoices(db_faults) :
       \E r \in {SaveBusiness(autoflush, committed, tx, pending, data, db_error)} :
         /\ db_faults' = db_faults + (IF db_error THEN 1 ELSE 0)
         /\ committed' = r.committed
         /\ tx' = r.tx
         /\ pending' = r.pending
         /\ last_call' = [op |-> "save_business", arg |-> <<data>>,
                          ok |-> r.ret # Nothing]
         /\ raised' = (raised \/ r.raised)
    /\ call' = "store"
    /\ UNCHANGED <<local_vars, extract_vars, url_vars, adapter, zyte_client, max_pages, page, start, businesses,
                   business_urls, pc, log, served, autoflush, cat_vars>>

\* the driver calls commit()
CallCommit ==
    /\ call \in {"none", "store"}
    /\ \E db_error \in FaultChoices(db_faults) :
       \E r \in {Commit(committed, tx, pending, db_error)} :
         /\ db_faults' = db_faults + (IF db_error THEN 1 ELSE 0)
         /\ committed' = r.committed
         /\ tx' = r.tx
         /\ pending' = r.pending
         /\ last_call' = [op |-> "commit", arg |-> << >>, ok |-> ~r.raised]
         /\ raised' = (raised \/ r.raised)
    /\ call' = "store"
    /\ UNCHANGED <<local_vars, extract_vars, url_vars, adapter, zyte_client, max_pages, page, start, businesses,
                   business_urls, pc, log, served, autoflush, cat_vars>>

NextStore == CallSaveBusiness \/ CallCommit

SpecStore == InitStore /\ [][NextStore]_vars


-----------------------------------------------------------------------------
(* scrape_multiple_categories.                                             *)

\* the business_titles arguments tried
TitleLists == {<< >>, <<"Plumbers">>, <<"Plumbers", "Dentists">>,
               <<"Plumbers", "Plumbers">>, <<"Plumbers", "Dentists", "Plumbers">>}

\* the max_pages_per_category arguments tried
CategoryMaxPages == {Nothing, <<1>>}

\* results[key] = value on a dict kept as a sequence of <<key, value>> in
\* insertion order
DictSet(d, key, value) ==
    IF \E i \in 1..Len(d) : d[i][1] = key
    THEN [i \in 1..Len(d) |-> IF d[i][1] = key THEN <<key, value>> ELSE d[i]]
    ELSE Append(d, <<key, value>>)

SaveEvent   == [op |-> "save", page |-> 0, param |-> Nothing]
CommitEvent == [op |-> "commit", page |-> 0, param |-> Nothing]

\* for business_data in businesses: if business_data: self.save_business(...)
\* from record i on; bad is the index of the save that meets a database
\* error (0: none does)
RECURSIVE SaveAll(_, _, _, _, _, _, _)
SaveAll(af, c, t, p, bs, i, bad) ==
    IF i > Len(bs) THEN StoreState(c, t, p, Nothing, FALSE)
    ELSE LET r == SaveBusiness(af, c, t, p, bs[i], i = bad)
         IN  SaveAll(af, r.committed, r.tx, r.pending, bs, i + 1, bad)

\* the records of bs, from record i on, for which save_business returned a
\* row in the loop SaveAll models
RECURSIVE SavedRows(_, _, _, _, _, _, _)
SavedRows(af, c, t, p, bs, i, bad) ==
    IF i > Len(bs) THEN << >>
    ELSE LET r == SaveBusiness(af, c, t, p, bs[i], i = bad)
         IN  (IF r.ret # Nothing THEN <<bs[i]>> ELSE << >>)
             \o SavedRows(af, r.committed, r.tx, r.pending, bs, i + 1, bad)

\* a handler that logs and raises again
CategoryExceptReraises == TRUE

\* except Exception as e: logger.error(...); results[business_title] = []
CategoryExceptPropagates == FALSE

\* the driver calls scrape_multiple_categories(titles, location, max_pages)
CallScrapeMultipleCategories ==
    /\ pc = "idle" /\ call = "none"
    /\ call' = CATEGORIES
    /\ business_titles' \in TitleLists
    /\ max_pages' \in CategoryMaxPages
    /\ idx' = 0
    /\ results' = << >>
    /\ pc' = "for"
    /\ UNCHANGED <<local_vars, extract_vars, url_vars, adapter, zyte_client, page, start, businesses, business_urls,
                   raised, log, served, store_vars, saved_args, commit_failed,
                   batch_saved>>

\* for business_title in business_titles: the next title's crawl begins
\* (scrape_by_category_and_location builds the URL and starts the crawl)
CategoryCrawl ==
    /\ call = CATEGORIES /\ pc = "for"
    /\ idx < Len(business_titles)
    /\ idx' = idx + 1
    /\ EnterCrawl(max_pages)
    /\ UNCHANGED <<local_vars, extract_vars, url_vars, call, adapter, zyte_client, raised, log, served, store_vars,
                   business_titles, results, saved_args, commit_failed,
                   batch_saved>>

\* the rest of the loop body once the crawl has returned: the result is
\* stored, every record is saved, the session is committed, and the loop
\* sleeps unless the title equals the last one; an exception ends the body
\* in the handler
CategoryPersist ==
    /\ call = CATEGORIES /\ pc = "returned"
    /\ \E bad \in (IF db_faults < MaxFaults THEN 0..Len(businesses) ELSE {0}),
          commit_error \in FaultChoices(db_faults) :
       \E sv \in {SaveAll(autoflush, committed, tx, pending, businesses, 1,
                           IF commit_error THEN 0 ELSE bad)} :
       \E cm \in {Commit(sv.committed, sv.tx, sv.pending, commit_error)} :
       LET title == business_titles[idx]
           crawl_raised == CrawlExceptPropagates /\ raised
           failed == crawl_raised \/ cm.raised
       IN  /\ db_faults' = db_faults + (IF bad # 0 \/ commit_error THEN 1 ELSE 0)
           /\ (commit_error => bad = 0)
           /\ committed' = IF crawl_raised THEN committed ELSE cm.committed
           /\ tx' = IF crawl_raised THEN tx ELSE cm.tx
           /\ pending' = IF crawl_raised THEN pending ELSE cm.pending
           /\ saved_args' = IF crawl_raised THEN saved_args
                            ELSE saved_args \o businesses
           /\ commit_failed' = (commit_failed \/ (~crawl_raised /\ cm.raised))
           /\ batch_saved' = IF crawl_raised THEN batch_saved
                             ELSE SavedRows(autoflush, committed, tx, pending,
                                            businesses, 1,
                                            IF commit_error THEN 0 ELSE bad)
           /\ last_call' = IF crawl_raised THEN last_call
                           ELSE [op |-> "commit", arg |-> << >>, ok |-> ~cm.raised]
           /\ results' = DictSet(results, title,
                                 IF failed THEN << >> ELSE businesses)
           /\ raised' = (failed /\ CategoryExceptPropagates)
           /\ log' = log
                \o (IF crawl_raised THEN << >>
                    ELSE [i \in 1..Len(businesses) |-> SaveEvent] \o <<CommitEvent>>)
                \o (IF ~failed /\ title # business_titles[Len(business_titles)]
                    THEN <<SleepEvent>> ELSE << >>)
           /\ pc' = IF failed /\ CategoryExceptPropagates THEN "done" ELSE "for"
    /\ UNCHANGED <<local_vars, extract_vars, url_vars, call, adapter, zyte_client, max_pages, page, start,
                   businesses, business_urls, served, autoflush,
                   business_titles, idx>>

\* return results
CategoriesReturn ==
    /\ call = CATEGORIES /\ pc = "for"
    /\ idx = Len(business_titles)
    /\ pc' = "done"
    /\ UNCHANGED <<local_vars, extract_vars, url_vars, call, adapter, zyte_client, max_pages, page, start,
                   businesses, business_urls, raised, log, served, store_vars,
                   cat_vars>>

NextCategories ==
    \/ CallScrapeMultipleCategories
    \/ CategoryCrawl
    \/ CrawlPass
    \/ CategoryPersist
    \/ CategoriesReturn

SpecCategories == InitStore /\ [][NextCategories]_vars


-----------------------------------------------------------------------------
(* Properties of the store and of scrape_multiple_categories.              *)

\* the rows the session holds: those written in the transaction, then the
\* objects added and not yet flushed
StoreView == tx \o pending

\* C7: after any sequence of save_business and commit calls, the store,
\* pending rows included, holds at most one row per source_url.
C7_OneRowPerSourceUrl ==
    call = "store" => NoSharedSourceUrl(StoreView)

\* the incoming record's non-null fields over the stored row
NonNullOver(old, new) ==
    [f \in DOMAIN old |-> IF new[f] # None THEN new[f] ELSE old[f]]

\* C8: a save_business that succeeds on a record whose source_url matches a
\* row of the store sets that row to the record's non-null fields over the
\* row's, and changes nothing else; when no row matches, the record is
\* inserted in full (so the same record saved twice leaves one row).
C8_UpsertMerges ==
    [][(last_call'.op = "save_business" /\ last_call'.ok)
          => LET data == last_call'.arg[1]
                 hit == FirstWith(StoreView, data.source_url)
             IN  IF hit # Nothing
                 THEN StoreView' = [StoreView EXCEPT ![hit[1]] =
                                        NonNullOver(StoreView[hit[1]], data)]
                 ELSE StoreView' = Append(StoreView, data)]_vars

\* C6: a commit failure inside scrape_multiple_categories reaches the
\* caller: once a commit of the call has failed, the call has raised.
C6_CommitFailurePropagates ==
    (call = CATEGORIES /\ commit_failed) => raised

\* a record the store can take: name neither null nor empty, source_url
\* not null
ValidRecord(r) == Truthy(r.name) /\ r.source_url # None

\* C9: every record scrape_multiple_categories passes to save_business has
\* a non-empty name and a source_url; _parse_business_from_listing and
\* scrape_business return None or such a record (they are pure: the second
\* part is evaluated once, before the call).
C9_ValidityGate ==
    /\ \A i \in 1..Len(saved_args) : ValidRecord(saved_args[i])
    /\ pc = "idle" =>
          /\ \A ad \in Adapters, raw \in RawListings :
                \A r \in {ParseBusinessFromListing(ad, raw)} :
                  r = Nothing \/ ValidRecord(r[1])
          /\ \A url \in DetailUrls, net \in NetOutcomes, html \in HtmlKinds,
                name \in {None, << >>, <<"Acme">>}, raises \in BOOLEAN :
                \A r \in {ScrapeBusiness(zyte_client, url, net, html, name,
                                          None, raises)} :
                  r = Nothing \/ ValidRecord(r[1])

\* a call has returned after saving a record of a page on which another
\* listing was discarded for its name or source_url
C9_Witness ==
    /\ call = CATEGORIES /\ pc = "done"
    /\ saved_args # << >>
    /\ \E i \in 1..Len(served) : served[i].discarded > 0

\* C13: in scrape_multiple_categories, before the first fetch of every
\* category's crawl but the first there is a sleep after the last fetch of
\* the crawl before.
C13_SleepBetweenCategories ==
    (call = CATEGORIES)
    => \A j \in 1..Len(log) :
          (IsFetch(log[j]) /\ log[j].page = 1
              /\ \E i \in 1..(j - 1) : IsFetch(log[i]))
          => \E k \in 1..(j - 1) :
                /\ log[k].op = "sleep"
                /\ \A i \in (k + 1)..(j - 1) : ~IsFetch(log[i])


-----------------------------------------------------------------------------
(* The field extractors, selector by selector. A text is the sequence of   *)
(* tokens get_text(strip=True) gives; a selector rule that matches no      *)
(* element is Nothing, one that matches is <<text>> of its first element.  *)

SPACE == " "

\* str.strip() for texts whose white space is the token SPACE
RECURSIVE StripLeft(_)
StripLeft(t) == IF t # << >> /\ Head(t) = SPACE THEN StripLeft(Tail(t)) ELSE t

RECURSIVE StripRight(_)
StripRight(t) ==
    IF t # << >> /\ t[Len(t)] = SPACE THEN StripRight(SubSeq(t, 1, Len(t) - 1))
    ELSE t

StripText(t) == StripRight(StripLeft(t))

\* re.sub(r'\s+', ' ', t)
RECURSIVE CollapseSpaces(_)
CollapseSpaces(t) ==
    IF Len(t) < 2 THEN t
    ELSE IF t[1] = SPACE /\ t[2] = SPACE THEN CollapseSpaces(Tail(t))
    ELSE <<t[1]>> \o CollapseSpaces(Tail(t))

RECURSIVE DropUntil(_, _)
DropUntil(t, S) ==
    IF t = << >> \/ Head(t) \in S THEN t ELSE DropUntil(Tail(t), S)

RECURSIVE TakeWhile(_, _)
TakeWhile(t, S) ==
    IF t = << >> \/ Head(t) \notin S THEN << >>
    ELSE <<Head(t)>> \o TakeWhile(Tail(t), S)

\* re.search(pattern+, t) for a character class: the first maximal run of
\* tokens of the class, Nothing when there is none
FirstRun(t, S) ==
    IF DropUntil(t, S) = << >> THEN Nothing
    ELSE <<TakeWhile(DropUntil(t, S), S)>>

\* the tokens made of the characters of [\d\s\-\(\)\.] only
PhoneChars == {"555-1234", "555-9999", "(514)", SPACE, "."}

\* phone_match and the value stored: re.sub(r'\s+', ' ', match).strip()
PhoneOfText(text) ==
    IF FirstRun(text, PhoneChars) = Nothing THEN Nothing
    ELSE <<StripText(CollapseSpaces(FirstRun(text, PhoneChars)[1]))>>

\* the number tokens and the float / int Python makes of them
DecimalTokens == {"4.5", "3.0"}
IntTokens == {"0", "12"}
FloatOf(tok) == IF tok \in DecimalTokens THEN <<tok>> ELSE <<tok, ".0">>

\* the index of the first token after position i that is not SPACE (0: none)
NextWord(t, i) ==
    IF \E j \in (i + 1)..Len(t) : t[j] # SPACE
    THEN CHOOSE j \in (i + 1)..Len(t) :
            t[j] # SPACE /\ \A k \in (i + 1)..(j - 1) : t[k] = SPACE
    ELSE 0

\* re.search(number \s* word): the first number token followed by a word of
\* Words, 0 when there is none
NumberBefore(t, Numbers, Words) ==
    LET hits == {i \in 1..Len(t) :
                    /\ t[i] \in Numbers
                    /\ NextWord(t, i) # 0
                    /\ t[NextWord(t, i)] \in Words}
    IN  IF hits = {} THEN 0 ELSE CHOOSE i \in hits : \A j \in hits : i <= j

StarWords == {"stars", "star", "rating"}
ReviewWords == {"reviews", "review"}

\* YellowPagesScraper._extract_rating_from_text
ExtractRatingFromText(text) ==
    LET i == NumberBefore(text, DecimalTokens \cup IntTokens, StarWords)
        decimals == {j \in 1..Len(text) : text[j] \in DecimalTokens}
    IN  IF i # 0 THEN FloatOf(text[i])
        ELSE IF decimals # {}
             THEN FloatOf(text[CHOOSE j \in decimals : \A k \in decimals : j <= k])
        ELSE None

\* YellowPagesScraper._extract_review_count
ExtractReviewCount(text) ==
    LET i == NumberBefore(text, IntTokens, ReviewWords)
    IN  IF i # 0 THEN <<text[i]>> ELSE None

\* truth value of an Optional[float] / Optional[int]: None and 0 are falsy
TruthyNumber(v) == v # None /\ v # <<"0">> /\ v # <<"0", ".0">>

\* text.split(sep) for a one-token separator
RECURSIVE Split(_, _)
Split(t, sep) ==
    IF \E i \in 1..Len(t) : t[i] = sep
    THEN LET i == CHOOSE i \in 1..Len(t) :
                     t[i] = sep /\ \A j \in 1..(i - 1) : t[j] # sep
         IN  <<SubSeq(t, 1, i - 1)>> \o Split(SubSeq(t, i + 1, Len(t)), sep)
    ELSE <<t>>

ZipTokens == {"62701", "62701-1234"}
NoAddress == [address |-> None, city |-> None, state |-> None, zip_code |-> None]

\* mutant of ParseAddress: state and zip_code are read from the last part
ParseAddressLastPart(address_text) ==
    IF address_text = << >> THEN NoAddress
    ELSE LET parts == [i \in 1..Len(Split(address_text, ",")) |->
                          StripText(Split(address_text, ",")[i])]
             state_zip == parts[Len(parts)]
             zips == {i \in 1..Len(state_zip) : state_zip[i] \in ZipTokens}
             z == CHOOSE i \in zips : \A j \in zips : i <= j
         IN  [address |-> parts[1],
              city |-> IF Len(parts) >= 2 THEN parts[2] ELSE None,
              state |-> IF Len(parts) < 3 THEN None
                        ELSE IF zips # {}
                             THEN StripText(SubSeq(state_zip, 1, z - 1))
                             ELSE state_zip,
              zip_code |-> IF Len(parts) >= 3 /\ zips # {}
                           THEN <<state_zip[z]>> ELSE None]

\* YellowPagesScraper._parse_address
ParseAddress(address_text) ==
    IF address_text = << >> THEN NoAddress
    ELSE LET parts == [i \in 1..Len(Split(address_text, ",")) |->
                          StripText(Split(address_text, ",")[i])]
             state_zip == parts[3]
             zips == {i \in 1..Len(state_zip) : state_zip[i] \in ZipTokens}
             z == CHOOSE i \in zips : \A j \in zips : i <= j
         IN  [address |-> parts[1],
              city |-> IF Len(parts) >= 2 THEN parts[2] ELSE None,
              state |-> IF Len(parts) < 3 THEN None
                        ELSE IF zips # {}
                             THEN StripText(SubSeq(state_zip, 1, z - 1))
                             ELSE state_zip,
              zip_code |-> IF Len(parts) >= 3 /\ zips # {}
                           THEN <<state_zip[z]>> ELSE None]


\* ', '.join(texts)
RECURSIVE Join(_)
Join(texts) ==
    IF texts = << >> THEN << >>
    ELSE IF Len(texts) = 1 THEN texts[1]
    ELSE texts[1] \o <<", ">> \o Join(Tail(texts))

\* s[:n]
Take(s, n) == SubSeq(s, 1, IF n < Len(s) THEN n ELSE Len(s))

\* categories[:5], category_elems[:5]
MaxCategories == 5

IsText(t) == t # << >>

\* the element the first matching rule of a selector list gives: Nothing
\* when no rule matches
FirstMatch(rules) ==
    IF \E i \in 1..Len(rules) : rules[i] # Nothing
    THEN rules[CHOOSE i \in 1..Len(rules) :
                  rules[i] # Nothing /\ \A j \in 1..(i - 1) : rules[j] = Nothing]
    ELSE Nothing

\* for tag, attrs in phone_selectors: ... if phone_match: ...; break
RECURSIVE PhoneFromRules(_)
PhoneFromRules(rules) ==
    IF rules = << >> THEN None
    ELSE IF Head(rules) # Nothing /\ PhoneOfText(Head(rules)[1]) # Nothing
         THEN PhoneOfText(Head(rules)[1])[1]
    ELSE PhoneFromRules(Tail(rules))

\* for tag, attrs in address_selectors: ... if address_text: ...; break
RECURSIVE AddressFromRules(_)
AddressFromRules(rules) ==
    IF rules = << >> THEN NoAddress
    ELSE IF Head(rules) # Nothing /\ Head(rules)[1] # << >>
         THEN ParseAddress(Head(rules)[1])
    ELSE AddressFromRules(Tail(rules))

\* for tag, attrs in rating_selectors: business_data['rating'] = ...;
\* if business_data['rating']: break  (cur is the value stored so far)
RECURSIVE RatingFromRules(_, _)
RatingFromRules(rules, cur) ==
    IF rules = << >> THEN cur
    ELSE IF Head(rules) = Nothing THEN RatingFromRules(Tail(rules), cur)
    ELSE IF TruthyNumber(ExtractRatingFromText(Head(rules)[1]))
         THEN ExtractRatingFromText(Head(rules)[1])
    ELSE RatingFromRules(Tail(rules), ExtractRatingFromText(Head(rules)[1]))

\* for tag, attrs in review_selectors: the same loop for review_count
RECURSIVE ReviewFromRules(_, _)
ReviewFromRules(rules, cur) ==
    IF rules = << >> THEN cur
    ELSE IF Head(rules) = Nothing THEN ReviewFromRules(Tail(rules), cur)
    ELSE IF TruthyNumber(ExtractReviewCount(Head(rules)[1]))
         THEN ExtractReviewCount(Head(rules)[1])
    ELSE ReviewFromRules(Tail(rules), ExtractReviewCount(Head(rules)[1]))

\* YelpScraper._extract_rating_from_aria_label: (\d+\.?\d*)\s*star
ExtractRatingFromAriaLabel(text) ==
    IF NumberBefore(text, DecimalTokens \cup IntTokens, {"star", "stars"}) # 0
    THEN FloatOf(text[NumberBefore(text, DecimalTokens \cup IntTokens,
                                   {"star", "stars"})])
    ELSE None

\* YelpScraper._extract_review_count: \((\d+)\s*review
YelpExtractReviewCount(text) ==
    LET hits == {i \in 2..Len(text) :
                    /\ text[i - 1] = "(" /\ text[i] \in IntTokens
                    /\ NextWord(text, i) # 0
                    /\ text[NextWord(text, i)] \in ReviewWords}
    IN  IF hits = {} THEN None
        ELSE <<text[CHOOSE i \in hits : \A j \in hits : i <= j]>>

\* category of a listing. Yellow Pages: the texts of the elements of every
\* rule, empty ones and repeats skipped, the first five joined. Yelp: the
\* texts of the buttons, joined
ListingCategory(ad, rules) ==
    IF ad = YP
    THEN LET categories == Dedup(SelectSeq(Flatten(rules), IsText))
         IN  IF categories = << >> THEN None
             ELSE Join(Take(categories, MaxCategories))
    ELSE IF Flatten(rules) = << >> THEN None ELSE Join(Flatten(rules))

\* amenities of a listing (json.dumps(tags), kept as the list): Yelp only;
\* Nothing is None
ListingAmenities(ad, tags) ==
    IF ad = YP \/ tags = << >> THEN Nothing ELSE <<tags>>

\* category of a detail page: the first five elements are looked at; Yellow
\* Pages skips the empty texts and the repeats, Yelp the empty texts
DetailCategory(ad, elems) ==
    LET texts == SelectSeq(Take(elems, MaxCategories), IsText)
        categories == IF ad = YP THEN Dedup(texts) ELSE texts
    IN  IF categories = << >> THEN None ELSE Join(categories)

\* a child of the Yelp secondary-attributes container: a paragraph, an
\* address tag or the div after the address, each holding one text
Child(kind, text) == [kind |-> kind, text |-> text]

\* the children of a given kind, in document order
OfKind(children, kind) ==
    LET IsKind(c) == c.kind = kind IN SelectSeq(children, IsKind)

\* address of a Yelp listing: the address tag of the listing, then the
\* address tag inside the container, which overwrites it
YelpAddress(rules, container) ==
    LET inside == IF container = Nothing THEN << >>
                  ELSE OfKind(container[1], "address")
    IN  IF inside # << >> THEN inside[1].text
        ELSE IF FirstMatch(rules) = Nothing THEN None
        ELSE FirstMatch(rules)[1]

\* the tokens of t before the first one in S
RECURSIVE UpTo(_, _)
UpTo(t, S) ==
    IF t = << >> \/ Head(t) \in S THEN << >>
    ELSE <<Head(t)>> \o UpTo(Tail(t), S)

\* re.search(r'Serving\s+([^,]+)', city_text), group 1 stripped; Nothing when
\* the pattern does not match
ServingCity(city_text) ==
    LET after == Tail(DropUntil(city_text, {"Serving"}))
        group == UpTo(StripLeft(after), {","})
    IN  IF after = << >> \/ Head(after) # SPACE \/ group = << >> THEN Nothing
        ELSE <<StripText(group)>>

\* city of a Yelp listing: the first paragraph anywhere inside the container
\* (find searches the address tag and the div as well), then the paragraph
\* of the div after the address, which overwrites it
YelpCity(container) ==
    IF container = Nothing THEN None
    ELSE LET children == container[1]
             city_text == IF children = << >> THEN Nothing
                          ELSE <<children[1].text>>
             first == IF city_text = Nothing THEN None
                      ELSE IF InSeq("Serving", city_text[1])
                           THEN IF ServingCity(city_text[1]) = Nothing THEN None
                                ELSE ServingCity(city_text[1])[1]
                      ELSE city_text[1]
             city_div == OfKind(children, "city_div")
         IN  IF city_div # << >> THEN city_div[1].text ELSE first

\* the fragment as the crawl sees it
Summary(ad, frag) ==
    LET link == FirstMatch(frag.name_rules)
    IN  Listing(IF link = Nothing THEN None ELSE link[1].text,
                IF link = Nothing THEN << >> ELSE link[1].href,
                PhoneFromRules(frag.phone_rules),
                frag.raises # "none")

\* _parse_business_from_listing on a fragment, every field: an exception
\* anywhere in the body ends in the handler, which returns None
ParseListingElement(ad, frag) ==
    LET raw == Summary(ad, frag)
        addr == IF ad = YP THEN AddressFromRules(frag.address_rules)
                ELSE [NoAddress EXCEPT
                        !.address = YelpAddress(frag.address_rules, frag.container),
                        !.city = YelpCity(frag.container)]
        data == [name |-> raw.name,
                 source_url |-> ExtractSourceUrl(ad, raw),
                 phone |-> ExtractPhone(ad, raw),
                 address |-> addr.address,
                 city |-> addr.city,
                 state |-> addr.state,
                 zip_code |-> addr.zip_code,
                 rating |-> IF ad = YP
                            THEN RatingFromRules(frag.rating_rules, None)
                            ELSE IF FirstMatch(frag.rating_rules) = Nothing
                                 THEN None
                            ELSE ExtractRatingFromAriaLabel(
                                     FirstMatch(frag.rating_rules)[1]),
                 review_count |-> IF ad = YP
                            THEN ReviewFromRules(frag.review_rules, None)
                            ELSE IF FirstMatch(frag.review_rules) = Nothing
                                 THEN None
                            ELSE YelpExtractReviewCount(
                                     FirstMatch(frag.review_rules)[1]),
                 category |-> ListingCategory(ad, frag.category_rules),
                 amenities |-> ListingAmenities(ad, frag.tags)]
    IN  IF frag.raises # "none" THEN Nothing
        ELSE IF ValidityGate(data) THEN <<data>>
        ELSE Nothing


-----------------------------------------------------------------------------
(* The extractors, called on their own.                                    *)

El(text, href) == <<[text |-> text, href |-> href]>>

Fragment(names, phones, addresses, ratings, reviews, categories, tags, container, raises) ==
    [name_rules |-> names, phone_rules |-> phones, address_rules |-> addresses,
     rating_rules |-> ratings, review_rules |-> reviews,
     category_rules |-> categories, tags |-> tags, container |-> container,
     raises |-> raises]

\* what the name selectors can find (Yellow Pages: five rules; Yelp: the
\* link in the h3 heading)
NameRules(ad) ==
    IF ad = YP
    THEN {<<Nothing, Nothing, Nothing, Nothing, Nothing>>,
          <<El(<<"Acme">>, <<"/", "acme", ".html">>), Nothing, Nothing, Nothing,
            El(<<"Bolt">>, <<"/", "bolt", ".html">>)>>,
          <<Nothing, El(<<"Acme">>, << >>), Nothing,
            El(<<"Bolt">>, <<"/", "bolt", ".html">>), Nothing>>,
          <<Nothing, El(<<"Bolt">>, <<"/", "bolt", ".html", "?", "lid=1">>),
            El(<<"Acme">>, <<"/", "acme", ".html">>), Nothing, Nothing>>,
          <<El(<< >>, <<"/", "acme", ".html">>),
            El(<<"Acme">>, <<"/", "acme", ".html">>), Nothing, Nothing, Nothing>>,
          <<Nothing, Nothing,
            El(<<"Acme">>, <<"http://other.example", "/", "acme", "?", "x=1">>),
            Nothing, Nothing>>}
    ELSE {<<Nothing>>,
          <<El(<<"Acme">>, <<"/", "biz", "/", "acme">>)>>,
          <<El(<<"Bolt">>, <<"/", "biz", "/", "bolt", "?", "osq=x">>)>>,
          <<El(<< >>, <<"/", "biz", "/", "acme">>)>>,
          <<El(<<"Acme">>, << >>)>>}

\* what the phone selectors can find (the Yelp listing parser has none)
PhoneRules(ad) ==
    IF ad = YP
    THEN {<<Nothing, Nothing, Nothing, Nothing>>,
          <<<<<<"555-1234">>>>, Nothing, Nothing, Nothing>>,
          <<<<<<"Call">>>>, <<<<"555-1234">>>>, <<<<"555-9999">>>>, Nothing>>,
          <<Nothing, <<<<"(514)", SPACE, SPACE, "555-1234">>>>,
            <<<<"555-9999">>>>, Nothing>>,
          <<<<<<"Call", SPACE, "us">>>>, <<<<"555-1234">>>>, Nothing, Nothing>>}
    ELSE {<< >>}

AddressRules(ad) ==
    IF ad = YP
    THEN {<<Nothing, Nothing, Nothing, Nothing>>,
          <<<<<<"1 Main St", ",", SPACE, "Springfield", ",", SPACE, "IL",
                SPACE, "62701">>>>, Nothing, Nothing, Nothing>>,
          <<<<<< >>>>, <<<<"2 Oak Ave">>>>, Nothing, Nothing>>,
          <<Nothing, <<<<"2 Oak Ave", ",", SPACE, "Springfield">>>>,
            <<<<"9 Elm St">>>>, Nothing>>}
    ELSE {<<Nothing>>, <<<<<<"1 Main St">>>>>>}

RatingRules(ad) ==
    IF ad = YP
    THEN {<<Nothing, Nothing, Nothing>>,
          <<<<<<"4.5", SPACE, "stars">>>>, Nothing, Nothing>>,
          <<<<<<"0", SPACE, "stars">>>>, <<<<"n/a">>>>, Nothing>>,
          <<<<<<"n/a">>>>, <<<<"4.5", SPACE, "stars">>>>, <<<<"3.0">>>>>>,
          <<Nothing, <<<<"3.0">>>>, <<<<"4.5", SPACE, "stars">>>>>>}
    ELSE {<<Nothing>>, <<<<<<"4.5", SPACE, "star", SPACE, "rating">>>>>>,
          <<<<<<"n/a">>>>>>}

ReviewRules(ad) ==
    IF ad = YP
    THEN {<<Nothing, Nothing>>,
          <<<<<<"12", SPACE, "reviews">>>>, Nothing>>,
          <<<<<<"n/a">>>>, <<<<"12", SPACE, "reviews">>>>>>,
          <<<<<<"0", SPACE, "reviews">>>>, <<<<"n/a">>>>>>}
    ELSE {<<Nothing>>, <<<<<<"(", "12", SPACE, "reviews", ")">>>>>>}

\* the texts of the category elements and of the tags
CategoryTexts == <<<<"Plumbers">>, <<"Heating">>, <<"Plumbers">>, <<"Drains">>,
                   <<"Sewers">>, <<"Pumps">>, <<"Boilers">>>>

\* the category elements each rule finds (Yelp: the buttons)
CategoryRules(ad) ==
    IF ad = YP
    THEN {<<<< >>, << >>, << >>>>,
          <<Take(CategoryTexts, 1), << >>, << >>>>,
          <<Take(CategoryTexts, 1), SubSeq(CategoryTexts, 2, 2),
            SubSeq(CategoryTexts, 3, 4)>>,
          <<<< >>, SubSeq(CategoryTexts, 2, 2), << << >> >>>>,
          <<CategoryTexts, << >>, << >>>>}
    ELSE {<<<< >>>>, <<Take(CategoryTexts, 2)>>, <<Take(CategoryTexts, 3)>>,
          <<CategoryTexts>>}

Tags(ad) ==
    IF ad = YP THEN {<< >>}
    ELSE {<< >>, Take(CategoryTexts, 2), Take(CategoryTexts, 3), CategoryTexts}

\* the secondary-attributes container of a Yelp listing: missing, empty, or
\* holding a city paragraph, an address tag, the div after the address
Containers(ad) ==
    IF ad = YP THEN {Nothing}
    ELSE {Nothing,
          <<<< >>>>,
          <<<<Child("p", <<"Laval">>)>>>>,
          <<<<Child("p", <<"Serving", SPACE, "Laval", SPACE, "and", SPACE,
                           "the", SPACE, "Surrounding", SPACE, "Area">>)>>>>,
          <<<<Child("address", <<"2 Oak Ave">>)>>>>,
          <<<<Child("p", <<"Laval">>), Child("address", <<"2 Oak Ave">>)>>>>,
          <<<<Child("address", <<"2 Oak Ave">>),
              Child("city_div", <<"Laval">>)>>>>}

\* where the body raises: nowhere, or while a field is extracted
RaisePoints == {"none", "address", "category"}

\* the fragments the listing extractor is tried on
Fragments(ad) ==
    {Fragment(n, ph, a, r, v, c, t, k, x) :
        n \in NameRules(ad), ph \in PhoneRules(ad), a \in AddressRules(ad),
        r \in RatingRules(ad), v \in ReviewRules(ad), c \in CategoryRules(ad),
        t \in Tags(ad), k \in Containers(ad), x \in RaisePoints}

\* the driver calls _parse_business_from_listing(listing_element)
CallParseBusinessFromListing ==
    /\ call = "none"
    /\ call' = "_parse_business_from_listing"
    /\ \E frag \in Fragments(adapter) :
         /\ listing_element' = <<frag>>
         /\ business_data' = ParseListingElement(adapter, frag)
    /\ UNCHANGED <<adapter, zyte_client, max_pages, page, start, businesses,
                   business_urls, pc, raised, log, served>>
    /\ UNCHANGED <<local_vars, store_vars, cat_vars, url_vars>>


\* a detail page as scrape_business meets it: the url argument, what the
\* fetch and the parse give, the texts of the name element, of the phone
\* element and of the category links, and whether reading the page raises
DetailPage(url, net, html, name, phone, elems, raises) ==
    [url |-> url, net |-> net, html |-> html, name |-> name, phone |-> phone,
     category_elems |-> elems, raises |-> raises]

\* the category links of a detail page
CategoryElems ==
    {<< >>, Take(CategoryTexts, 2), Take(CategoryTexts, 3), CategoryTexts,
     <<<< >>, <<"Plumbers">>>>}

DetailPages ==
    {DetailPage(url, net, html, name, None, elems, raises) :
        url \in DetailUrls, net \in NetOutcomes, html \in HtmlKinds,
        name \in {None, <<"Acme">>}, elems \in CategoryElems,
        raises \in BOOLEAN}

\* scrape_business with the category of the record; amenities stays None
ScrapeBusinessRecord(ad, client, dp) ==
    LET data == ScrapeBusiness(client, dp.url, dp.net, dp.html, dp.name,
                               dp.phone, dp.raises)
    IN  IF data = Nothing THEN Nothing
        ELSE <<[name |-> data[1].name,
                source_url |-> data[1].source_url,
                phone |-> data[1].phone,
                category |-> DetailCategory(ad, dp.category_elems),
                amenities |-> Nothing]>>

\* the driver calls scrape_business(url)
CallScrapeBusiness ==
    /\ call = "none"
    /\ call' = "scrape_business"
    /\ \E dp \in DetailPages :
         /\ listing_element' = <<dp>>
         /\ business_data' = ScrapeBusinessRecord(adapter, zyte_client, dp)
    /\ UNCHANGED <<adapter, zyte_client, max_pages, page, start, businesses,
                   business_urls, pc, raised, log, served>>
    /\ UNCHANGED <<local_vars, store_vars, cat_vars, url_vars>>

-----------------------------------------------------------------------------
(* The search URL and the page URLs made from it. A string is the sequence *)
(* of its characters; a run of letters or digits is one token, and so is   *)
(* a percent escape.                                                       *)

\* quote_plus of one character
QuoteChar(c) ==
    CASE c = SPACE -> "+"
      [] c = "&" -> "%26"
      [] c = "=" -> "%3D"
      [] c = "," -> "%2C"
      [] c = "+" -> "%2B"
      [] OTHER -> c

\* unquote of one token of a query string, '+' read as a space
UnquoteChar(c) ==
    CASE c = "+" -> SPACE
      [] c = "%26" -> "&"
      [] c = "%3D" -> "="
      [] c = "%2C" -> ","
      [] c = "%2B" -> "+"
      [] OTHER -> c

QuotePlus(s) == [i \in 1..Len(s) |-> QuoteChar(s[i])]
Unquote(s) == [i \in 1..Len(s) |-> UnquoteChar(s[i])]

\* '&'.join(parts)
RECURSIVE JoinAmp(_)
JoinAmp(parts) ==
    IF parts = << >> THEN << >>
    ELSE IF Len(parts) = 1 THEN parts[1]
    ELSE parts[1] \o <<"&">> \o JoinAmp(Tail(parts))

\* urlencode(params) for params as a sequence of <<key, value>>
UrlEncode(params) ==
    JoinAmp([i \in 1..Len(params) |->
                QuotePlus(params[i][1]) \o <<"=">> \o QuotePlus(params[i][2])])

\* the names of the query parameters of build_search_url, and of the
\* pagination parameter of the crawl loop
TermsName(ad) == IF ad = YP THEN <<"search_terms">> ELSE <<"find_desc">>
LocationName(ad) == IF ad = YP THEN <<"geo_location_terms">> ELSE <<"find_loc">>
PaginationName(ad) == IF ad = YP THEN <<"page">> ELSE <<"start">>

\* build_search_url(business_title, location)
BuildSearchUrl(ad, business_title, location) ==
    BaseUrl(ad) \o <<"/search", "?">>
        \o UrlEncode(<<<<TermsName(ad), business_title>>,
                       <<LocationName(ad), location>>>>)

\* urlparse(url).query, and the url up to its path
AfterQuery(url) ==
    IF InSeq("?", url) THEN SubSeq(url, Len(BeforeQuery(url)) + 2, Len(url))
    ELSE << >>

\* name_value.split('=', 1)
SplitOnce(piece) ==
    IF InSeq("=", piece)
    THEN <<UpTo(piece, {"="}), SubSeq(piece, Len(UpTo(piece, {"="})) + 2, Len(piece))>>
    ELSE <<piece>>

\* parse_qs over the pieces from piece i on: a piece without '=' or with an
\* empty value is skipped; a repeated name collects its values
RECURSIVE ParsePieces(_, _, _)
ParsePieces(pieces, i, d) ==
    IF i > Len(pieces) THEN d
    ELSE LET nv == SplitOnce(pieces[i])
         IN  IF Len(nv) # 2 \/ nv[2] = << >>
             THEN ParsePieces(pieces, i + 1, d)
             ELSE LET name == Unquote(nv[1])
                      value == Unquote(nv[2])
                      old == SelectSeq(d, LAMBDA kv : kv[1] = name)
                  IN  ParsePieces(pieces, i + 1,
                          DictSet(d, name,
                                  IF old = << >> THEN <<value>>
                                  ELSE Append(old[1][2], value)))

\* urllib.parse.parse_qs(query): a dict of name -> list of values, kept as a
\* sequence of <<name, values>> in insertion order
ParseQs(query) == ParsePieces(Split(query, "&"), 1, << >>)

\* str(n) of a number
Str(n) == <<ToString(n)>>

\* the page URL of the crawl loop: the query is parsed, the pagination
\* parameter set, and the first value of every parameter written back as it
\* is, without quoting
PageUrl(ad, url, value) ==
    LET query_params == DictSet(ParseQs(AfterQuery(url)),
                                PaginationName(ad), <<value>>)
        new_query == JoinAmp([i \in 1..Len(query_params) |->
                         query_params[i][1] \o <<"=">> \o query_params[i][2][1]])
    IN  BeforeQuery(url) \o <<"?">> \o new_query

\* the business_title and location arguments tried
SearchTexts ==
    {<<"Plumbers">>, <<"Montreal", ",", SPACE, "QC">>,
     <<"Venues", SPACE, "&", SPACE, "Events">>, <<"a", "=", "b">>,
     <<"C", "+", "+">>, << >>}

\* the values of the loop's page counter for which a page URL is built
PageCounters(ad) == IF ad = YP THEN {2, 3} ELSE {1, 2}

\* the driver calls build_search_url(business_title, location)
CallBuildSearchUrl ==
    /\ call = "none"
    /\ call' = "build_search_url"
    /\ \E business_title \in SearchTexts, location \in SearchTexts :
         search_url' = BuildSearchUrl(adapter, business_title, location)
    /\ UNCHANGED <<adapter, zyte_client, max_pages, page, start, businesses,
                   business_urls, pc, raised, log, served, current_url>>
    /\ UNCHANGED <<local_vars, store_vars, cat_vars, extract_vars>>

\* the caller hands the crawl a search URL that holds a pagination parameter
\* already
PagedSearchUrl ==
    /\ call = "build_search_url"
    /\ call' = "paged_search_url"
    /\ \E position \in {"first", "last"} :
         search_url' =
            IF position = "last"
            THEN search_url \o <<"&">> \o PaginationName(adapter) \o <<"=", "7">>
            ELSE BeforeQuery(search_url) \o <<"?">> \o PaginationName(adapter)
                    \o <<"=", "7", "&">> \o AfterQuery(search_url)
    /\ UNCHANGED <<adapter, zyte_client, max_pages, page, start, businesses,
                   business_urls, pc, raised, log, served, current_url>>
    /\ UNCHANGED <<local_vars, store_vars, cat_vars, extract_vars>>

\* the crawl loop builds current_url for a page after the first
BuildPageUrl ==
    /\ call \in {"build_search_url", "paged_search_url"}
    /\ call' = "page_url"
    /\ \E pg \in PageCounters(adapter) :
         /\ page' = pg
         /\ start' = IF adapter = YP THEN 0 ELSE 10 * pg
         /\ current_url' = PageUrl(adapter, search_url,
                               Str(PageParam(adapter, pg, start')[2]))
    /\ UNCHANGED <<adapter, zyte_client, max_pages, businesses, business_urls,
                   pc, raised, log, served, search_url>>
    /\ UNCHANGED <<local_vars, store_vars, cat_vars, extract_vars>>

-----------------------------------------------------------------------------
(* The listing selectors of the Yellow Pages crawl, and _parse_address,    *)
(* called on their own.                                                    *)

\* listing_selectors has five rules
ListingSelectors == 5

\* mutant of SelectListings: the matches of every rule are kept
SelectListingsEveryRule(matches) == Flatten(matches)

\* for tag, attrs in listing_selectors: found_listings = soup.find_all(...);
\* if found_listings: listings = found_listings; break
SelectListings(matches) ==
    IF \E i \in 1..Len(matches) : matches[i] # << >>
    THEN matches[CHOOSE i \in 1..Len(matches) :
                    matches[i] # << >> /\ \A j \in 1..(i - 1) : matches[j] = << >>]
    ELSE << >>

\* what one rule can find on a page: nothing, or some of its elements
RuleMatches == {<< >>, <<"div1">>, <<"li1">>, <<"div1", "div2">>}

\* the crawl loop looks for the listings of a parsed page
FindPageListings ==
    /\ call = "none" /\ adapter = YP
    /\ call' = "find_listings"
    /\ \E matches \in [1..ListingSelectors -> RuleMatches] :
         /\ selector_matches' = matches
         /\ found_listings' = SelectListings(matches)
    /\ UNCHANGED <<adapter, zyte_client, max_pages, page, start, businesses,
                   business_urls, pc, raised, log, served, parsed_text,
                   address_parts>>
    /\ UNCHANGED <<store_vars, cat_vars, extract_vars, url_vars>>

\* the address texts tried: empty, one to four parts, a third part with a
\* ZIP code, a ZIP+4 code, no code, digits that are no code, a code first,
\* empty parts, blanks around the parts
AddressTexts ==
    {<< >>,
     <<"1 Main St">>,
     <<SPACE, "1 Main St", SPACE, ",", "Springfield">>,
     <<"1 Main St", ",", SPACE, "Springfield", ",", SPACE, "IL", SPACE, "62701">>,
     <<"1 Main St", ",", "Springfield", ",", "IL", SPACE, "62701-1234">>,
     <<"1 Main St", ",", "Springfield", ",", "IL">>,
     <<"1 Main St", ",", "Springfield", ",", "IL", SPACE, "627">>,
     <<"1 Main St", ",", "Springfield", ",", "62701", SPACE, "IL">>,
     <<"1 Main St", ",", "Springfield", ",", "IL", SPACE, "62701", SPACE, "62701-1234">>,
     <<"1 Main St", ",", "Suite 2", ",", "Springfield", ",", "IL", SPACE, "62701">>,
     <<"1 Main St", ",", "Springfield", ",", "IL", ",", "62701">>,
     <<"1 Main St", ",", "Springfield", ",", "IL", SPACE, "62701", ",", "USA">>,
     <<",", ",">>,
     <<SPACE>>}

\* the listing parser calls self._parse_address(address_text)
CallParseAddress ==
    /\ call = "none" /\ adapter = YP
    /\ call' = "_parse_address"
    /\ \E text \in AddressTexts :
         /\ parsed_text' = text
         /\ address_parts' = <<ParseAddress(text)>>
    /\ UNCHANGED <<adapter, zyte_client, max_pages, page, start, businesses,
                   business_urls, pc, raised, log, served, selector_matches,
                   found_listings>>
    /\ UNCHANGED <<store_vars, cat_vars, extract_vars, url_vars>>

NextExtract ==
    \/ CallParseBusinessFromListing
    \/ CallScrapeBusiness
    \/ CallBuildSearchUrl
    \/ PagedSearchUrl
    \/ BuildPageUrl
    \/ FindPageListings
    \/ CallParseAddress

SpecExtract == Init /\ [][NextExtract]_vars

-----------------------------------------------------------------------------
(* Properties of the extractors.                                           *)

\* the listing extractor has returned
Parsed == call = "_parse_business_from_listing"

\* a rule list with every rule after the first matching one unmatched
RECURSIVE OnlyFirstRule(_, _)
OnlyFirstRule(rules, unmatched) ==
    IF rules = << >> THEN << >>
    ELSE IF Head(rules) = unmatched
         THEN <<unmatched>> \o OnlyFirstRule(Tail(rules), unmatched)
    ELSE <<Head(rules)>> \o [i \in 1..(Len(rules) - 1) |-> unmatched]

\* the fragment as a parser that stops at the first matching rule sees it
FirstRulesOnly(frag) ==
    [frag EXCEPT !.name_rules = OnlyFirstRule(@, Nothing),
                 !.phone_rules = OnlyFirstRule(@, Nothing),
                 !.address_rules = OnlyFirstRule(@, Nothing),
                 !.rating_rules = OnlyFirstRule(@, Nothing),
                 !.review_rules = OnlyFirstRule(@, Nothing),
                 !.category_rules = OnlyFirstRule(@, << >>)]

\* C14: the Yellow Pages listing extractor derives name, phone, address,
\* rating, review_count and category from the first rule of each list that
\* matches an element; the rules after it have no influence on the record
C14_FirstMatchingRuleOnly ==
    (Parsed /\ adapter = YP /\ listing_element[1].raises = "none") =>
        business_data = ParseListingElement(YP, FirstRulesOnly(listing_element[1]))


\* the children of a container that are not of the given kinds
NotOfKinds(container, kinds) ==
    LET Other(c) == c.kind \notin kinds
    IN  IF container = Nothing THEN Nothing
        ELSE <<SelectSeq(container[1], Other)>>

\* the fragment with the elements of one field taken away, and nothing raising
WithoutField(frag, field) ==
    [frag EXCEPT !.raises = "none",
                 !.phone_rules = IF field = "phone"
                                 THEN [i \in 1..Len(@) |-> Nothing] ELSE @,
                 !.address_rules = IF field = "address"
                                   THEN [i \in 1..Len(@) |-> Nothing] ELSE @,
                 !.rating_rules = IF field = "rating"
                                  THEN [i \in 1..Len(@) |-> Nothing] ELSE @,
                 !.review_rules = IF field = "review_count"
                                  THEN [i \in 1..Len(@) |-> Nothing] ELSE @,
                 !.category_rules = IF field = "category"
                                    THEN [i \in 1..Len(@) |-> << >>] ELSE @,
                 !.tags = IF field = "amenities" THEN << >> ELSE @,
                 !.container = IF field = "address"
                               THEN NotOfKinds(@, {"address"})
                               ELSE IF field = "city"
                               THEN NotOfKinds(@, {"p", "city_div"})
                               ELSE @]

\* C15: when the extraction of one field of a listing raises, the listing
\* extractor still returns the record of the other fields, the failing field
\* null
C15_FieldExceptionContained ==
    (Parsed /\ listing_element[1].raises # "none") =>
        business_data = ParseListingElement(adapter,
                            WithoutField(listing_element[1], listing_element[1].raises))


\* the optional fields that have selectors of their own (on Yellow Pages
\* city, state and zip_code are parts of the address text)
OptionalFields(ad) ==
    IF ad = YP THEN {"phone", "address", "rating", "review_count", "category"}
    ELSE {"address", "city", "rating", "review_count", "category", "amenities"}

\* the record with one optional field null
Nulled(ad, data, field) ==
    [data EXCEPT !.phone = IF field = "phone" THEN None ELSE @,
                 !.address = IF field = "address" THEN None ELSE @,
                 !.city = IF field = "city" \/ (ad = YP /\ field = "address")
                          THEN None ELSE @,
                 !.state = IF ad = YP /\ field = "address" THEN None ELSE @,
                 !.zip_code = IF ad = YP /\ field = "address" THEN None ELSE @,
                 !.rating = IF field = "rating" THEN None ELSE @,
                 !.review_count = IF field = "review_count" THEN None ELSE @,
                 !.category = IF field = "category" THEN None ELSE @,
                 !.amenities = IF field = "amenities" THEN Nothing ELSE @]

\* the name link of the fragment carries a text / an href
NameExtracted(frag) ==
    FirstMatch(frag.name_rules) # Nothing /\ FirstMatch(frag.name_rules)[1].text # << >>
SourceUrlExtracted(frag) ==
    FirstMatch(frag.name_rules) # Nothing /\ FirstMatch(frag.name_rules)[1].href # << >>

\* a record comes back exactly when name and source_url were extracted
ReturnsIffNameAndUrl ==
    (Parsed /\ listing_element[1].raises = "none") =>
        (business_data # Nothing <=>
            NameExtracted(listing_element[1]) /\ SourceUrlExtracted(listing_element[1]))

\* taking the elements of one optional field away makes that field null and
\* leaves the other fields of the record as they were
OptionalFieldsIndependent ==
    (Parsed /\ listing_element[1].raises = "none" /\ business_data # Nothing) =>
        \A field \in OptionalFields(adapter) :
            ParseListingElement(adapter, WithoutField(listing_element[1], field))
                = <<Nulled(adapter, business_data[1], field)>>

\* C17: the listing extractor returns a record exactly when name and
\* source_url were extracted, whatever other fields are present; a field no
\* selector matched is null, and the absence of one optional field never
\* changes the value of another
C17_PartialRecords == ReturnsIffNameAndUrl /\ OptionalFieldsIndependent


\* scrape_business has returned
Scraped == call = "scrape_business"

\* the category texts the selectors matched, in document order
MatchedCategories ==
    IF Parsed THEN Flatten(listing_element[1].category_rules)
    ELSE listing_element[1].category_elems

\* the distinct non-empty texts in first-seen order, five at most
DistinctCapped(texts) == Take(Dedup(SelectSeq(texts, IsText)), MaxCategories)

\* C18: in every record of either adapter, from a listing or from a detail
\* page, category is the comma-join of the distinct matched category texts
\* in first-seen order, five at most, and amenities is the list of the
\* distinct tags in first-seen order, five at most
C18_DistinctCappedLists ==
    ((Parsed \/ Scraped) /\ business_data # Nothing) =>
        /\ business_data[1].category =
              IF DistinctCapped(MatchedCategories) = << >> THEN None
              ELSE Join(DistinctCapped(MatchedCategories))
        /\ Parsed =>
              business_data[1].amenities =
                 IF DistinctCapped(listing_element[1].tags) = << >> THEN Nothing
                 ELSE <<DistinctCapped(listing_element[1].tags)>>

\* C19: the source_url of every record of the listing extractor and of
\* scrape_business carries no query string
C19_SourceUrlWithoutQuery ==
    ((Parsed \/ Scraped) /\ business_data # Nothing) =>
        ~InSeq("?", business_data[1].source_url)


\* the crawl loop has built a page URL
PageUrlBuilt == call = "page_url"

\* a dict as the set of its <<name, values>> entries
Entries(d) == {d[i] : i \in 1..Len(d)}

\* C20: the page URL built in the crawl loop carries the query parameters of
\* the search URL, names and decoded values, and the pagination parameter
\* with the one value of this page, whether or not the search URL held a
\* pagination parameter before
C20_PageUrlKeepsParameters ==
    PageUrlBuilt =>
        Entries(ParseQs(AfterQuery(current_url))) =
            Entries(DictSet(ParseQs(AfterQuery(search_url)),
                            PaginationName(adapter),
                            <<Str(PageParam(adapter, page, start)[2])>>))


-----------------------------------------------------------------------------
(* Pagination of one crawl (specification Spec).                           *)

\* C21: the first fetch of a crawl uses the search URL as it is, the k-th
\* fetch carries page=k (Yellow Pages) or start=10*(k-1) (Yelp); the pages
\* are fetched in order, none skipped, none twice, and in the Yelp loop
\* start = 10 * page at every pass
C21_PaginationSequence ==
    /\ \A k \in 1..Len(Fetches) :
          /\ Fetches[k].page = k
          /\ Fetches[k].param =
                IF k = 1 THEN Nothing
                ELSE IF adapter = YP THEN <<"page", k>>
                ELSE <<"start", 10 * (k - 1)>>
    /\ (adapter = YELP /\ pc \in {"loop", "returned"}) => start = 10 * page

C21_Witness == Len(Fetches) >= 3 /\ pc = "returned"


-----------------------------------------------------------------------------
(* Properties of the listing selectors and of _parse_address.              *)

\* the selector loop has run
ListingsFound == call = "find_listings"

\* C22: the listing containers of a Yellow Pages page are the matches of one
\* rule of the selector list, the first that matches anything; the matches
\* of the rules after it are not added, and there are no containers only
\* when no rule matches
C22_FirstMatchingSelector ==
    ListingsFound =>
        /\ (\A i \in 1..ListingSelectors : selector_matches[i] = << >>)
              <=> found_listings = << >>
        /\ \A i \in 1..ListingSelectors :
              (selector_matches[i] # << >>
                 /\ \A j \in 1..(i - 1) : selector_matches[j] = << >>)
              => found_listings = selector_matches[i]

C22_Witness ==
    /\ ListingsFound
    /\ selector_matches[1] = << >>
    /\ selector_matches[2] = <<"div1">>
    /\ selector_matches[5] = <<"li1">>
    /\ found_listings = <<"div1">>

\* _parse_address has returned
AddressParsed == call = "_parse_address"

\* the comma-separated parts of the text given to _parse_address, stripped
AddressPart(i) == StripText(Split(parsed_text, ",")[i])
AddressPartCount == Len(Split(parsed_text, ","))

\* the positions of the ZIP tokens in the third part
ZipPositions == {i \in 1..Len(AddressPart(3)) : AddressPart(3)[i] \in ZipTokens}
FirstZip == CHOOSE i \in ZipPositions : \A j \in ZipPositions : i <= j

-----------------------------------------------------------------------------
(* A crawl on a site that never runs out of pages. The loop never reads    *)
(* its counters once they are past max_pages' reach, so this specification *)
(* keeps page modulo PageWrap and the first MaxSiteListings records only,  *)
(* and keeps no history.                                                   *)

PageWrap == MaxSiteListings + 1

\* the page counter, kept in 1..PageWrap (Yelp: 0..PageWrap - 1)
WrapPage(ad, pg) == IF ad = YP THEN ((pg - 1) % PageWrap) + 1 ELSE pg % PageWrap

\* the pages of such a site: one valid listing each, with or without a next
\* control
EndlessPages(ad) ==
    {Page("ok", "tree", <<l>>, next, TRUE, TRUE) :
        l \in {c \in CrawlListings(ad) :
                  ~c.raises /\ ListingBusiness(ad, c) # Nothing},
        next \in BOOLEAN}

\* one pass of scrape_businesses_from_search on such a site
EndlessPass ==
    /\ pc = "loop" /\ call = BUSINESSES
    /\ \E p \in EndlessPages(adapter) :
       \E r \in {LoopPass(BUSINESSES, adapter, zyte_client, max_pages, page,
                          start, businesses, p)} :
         /\ page' = WrapPage(adapter, r.page)
         /\ start' = IF adapter = YELP THEN 10 * WrapPage(adapter, r.page)
                                       ELSE r.start
         /\ businesses' = Take(r.acc, MaxSiteListings)
         /\ pc' = IF r.exit = "continue" THEN "loop" ELSE "returned"
    /\ UNCHANGED <<local_vars, extract_vars, url_vars, call, adapter, zyte_client,
                   max_pages, business_urls, raised, log, served,
                   store_vars, cat_vars>>

NextEndless ==
    \/ CallScrapeBusinessesFromSearch
    \/ EndlessPass

\* the loop is not interrupted: a pass that can run does run
SpecEndless == Init /\ [][NextEndless]_vars /\ WF_vars(EndlessPass)

\* C24: every crawl reaches its return, scrape_businesses_from_search with
\* max_pages = None also on a site whose every page has valid listings and
\* a next control
C24_CrawlTerminates ==
    (pc = "loop" /\ max_pages = Nothing) ~> (pc = "returned")


-----------------------------------------------------------------------------
(* What scrape_search_results returns (specification Spec).                *)

\* scrape_search_results has returned
UrlsReturned == call = URLS /\ pc = "returned"

\* the list has no duplicates and is in first-seen order
UrlsDistinctInOrder == UrlsReturned => business_urls = Dedup(UrlsOf(served))

\* no URL of the list has a query string
UrlsWithoutQuery ==
    UrlsReturned => \A i \in 1..Len(business_urls) : ~InSeq("?", business_urls[i])

\* every URL of the list is absolute
UrlsAbsolute ==
    UrlsReturned =>
        \A i \in 1..Len(business_urls) : business_urls[i][1] \in HttpTokens

\* C25: scrape_search_results returns the listing URLs of the crawl without
\* duplicates, in first-seen order, each absolute and without a query string
C25_UrlListDistinctAbsolute ==
    UrlsDistinctInOrder /\ UrlsWithoutQuery /\ UrlsAbsolute


\* C26: a crawl called with max_pages = 0 is capped like one called with any
\* other bound: it fetches no more pages than a crawl with max_pages = 1,
\* which fetches one
C26_ZeroMaxPagesCapped == max_pages = <<0>> => Len(Fetches) <= 1


\* the URLs of a served page that no earlier page had shown
NewUrls(k) ==
    {u \in {served[k].urls[i] : i \in 1..Len(served[k].urls)} :
        \A j \in 1..(k - 1) : ~InSeq(u, served[j].urls)}

\* C27: scrape_search_results stops after the first page that contributes
\* no URL not already collected, even when the page has listings and a next
\* control: no page after it is fetched
C27_StalePageStops ==
    call = URLS =>
        \A k \in 1..Len(served) :
            (served[k].kind = "ok" /\ NewUrls(k) = {}) => Len(served) = k

C27_Witness ==
    /\ call = URLS /\ pc = "returned" /\ max_pages = Nothing
    /\ Len(served) = 2
    /\ served[2].kind = "ok" /\ served[2].next /\ ~served[2].listing_raised
    /\ served[2].urls # << >>
    /\ NewUrls(2) = {}


-----------------------------------------------------------------------------
(* The batch of one category, the rows one save touches, and the order of   *)
(* the categories' steps.                                                  *)

\* the committed table holds a row for the record's source_url
InStore(rows, data) == FirstWith(rows, data.source_url) # Nothing

\* the latest category's commit has succeeded
CategoryCommitted ==
    call = CATEGORIES /\ last_call.op = "commit" /\ last_call.ok

\* C28: in scrape_multiple_categories, when a category's commit succeeds,
\* every record of that category for which save_business returned a row is
\* in the store after the commit, whatever save failed in the batch.
C28_BatchSurvivesSaveFailure ==
    CategoryCommitted
    => \A i \in 1..Len(batch_saved) : InStore(committed, batch_saved[i])


\* the rows of the session with another source_url than url, in order
OtherRows(rows, url) == SelectSeq(rows, LAMBDA row : row.source_url # url)

\* the positions at which two row lists differ
ChangedRows(old, new) ==
    {i \in 1..Len(new) : i > Len(old) \/ old[i] # new[i]}

\* C29: a save_business call that does not fail changes at most one row,
\* one whose source_url is the incoming record's; the rows with another
\* source_url, and their number, are unchanged.
C29_SaveTouchesOneRow ==
    [][(last_call'.op = "save_business" /\ last_call'.ok)
          => LET data == last_call'.arg[1]
             IN  /\ OtherRows(StoreView', data.source_url)
                       = OtherRows(StoreView, data.source_url)
                 /\ Len(StoreView') >= Len(StoreView)
                 /\ Cardinality(ChangedRows(StoreView, StoreView')) <= 1
                 /\ \A i \in ChangedRows(StoreView, StoreView') :
                       StoreView'[i].source_url = data.source_url
                 /\ committed' = committed]_vars

\* a save has succeeded on a session that holds a row of another source_url
C29_Witness ==
    /\ call = "store"
    /\ last_call.op = "save_business" /\ last_call.ok
    /\ OtherRows(StoreView, last_call.arg[1].source_url) # << >>
    /\ Len(OtherRows(StoreView, last_call.arg[1].source_url)) < Len(StoreView)


\* the keys of the results dict, in insertion order
Keys(d) == [i \in 1..Len(d) |-> d[i][1]]

\* results[key]
DictGet(d, key) == d[CHOOSE i \in 1..Len(d) : d[i][1] = key][2]

\* the categories whose loop body has ended
Processed == IF pc \in {"for", "done"} THEN idx ELSE idx - 1

\* the positions of the log that hold an event of this kind
EventsOf(op) == {j \in 1..Len(log) : log[j].op = op}

\* every fetch after position j belongs to a later crawl: a first fetch
\* lies between them
NoLaterFetchOfSameCrawl(j) ==
    \A k \in (j + 1)..Len(log) :
       IsFetch(log[k])
       => \E m \in (j + 1)..k : IsFetch(log[m]) /\ log[m].page = 1

\* C30: scrape_multiple_categories processes every title in order and
\* returns a map with a key for every title; a category whose body raised
\* has the empty list as its entry and the categories after it are still
\* crawled, saved and committed; a category's upserts and commit come after
\* its last fetch and before the first fetch of the next category.
C30_CategoriesIsolatedInOrder ==
    call = CATEGORIES
    => /\ Keys(results) = Dedup(SubSeq(business_titles, 1, Processed))
       /\ (pc = "done" => /\ idx = Len(business_titles)
                          /\ ~raised)
       /\ (pc \in {"for", "done"} /\ last_call.op = "commit" /\ ~last_call.ok)
             => DictGet(results, business_titles[idx]) = << >>
       /\ Cardinality(EventsOf("commit")) = Processed
       /\ Cardinality(EventsOf("save")) = Len(saved_args)
       /\ \A j \in EventsOf("save") \cup EventsOf("commit") :
             NoLaterFetchOfSameCrawl(j)
       /\ \A j \in EventsOf("save") :
             \E k \in (j + 1)..Len(log) :
                /\ log[k].op = "commit"
                /\ \A m \in j..k : ~IsFetch(log[m])

\* the call has returned after a category whose commit failed and a later
\* category whose records were committed
C30_Witness ==
    /\ call = CATEGORIES /\ pc = "done"
    /\ commit_failed
    /\ last_call.op = "commit" /\ last_call.ok
    /\ committed # << >>
    /\ \E i \in 1..Len(results) : results[i][2] = << >>

=============================================================================
